---- MODULE Spec2Model ----
(***************************************************************************)
(* keystore2: the KeyMint device registry (globals.rs), the key-blob       *)
(* upgrade protocol and operation admission (security_level.rs,            *)
(* raw_device.rs).                                                         *)
(***************************************************************************)
EXTENDS Integers, Sequences, FiniteSets, TLC

\* ------------------------------------------------------------------ bounds
\* Engine firmware (blob format) versions range over 0..MaxFw.
MaxFw == 1
\* Number of operation slots the engine offers.
Capacity == 2
\* Events kept per request log (later events are dropped).
MaxLog == 16
\* Connections the platform hands out before connection attempts fail.
MaxConn == 3
\* KeyMint AIDL interface versions a declared instance may report: 1..MaxAidl.
MaxAidl == 5
\* generateKey calls followed per run
MaxGen == 2
\* Longest operation parameter list a caller passes.
MaxParams == 3
\* Store connections the worker threads open in a run.
MaxOpen == 3

\* ------------------------------------------------------------- vocabulary
Threads == {1, 2}
Uids == {"u1", "u2"}
StoreKeys == {"k1"}
NoUuid == "none"
NoBlob == [key |-> "none", ver |-> 0, gen |-> 0]
NoEntry ==
    [present |-> FALSE, blob |-> NoBlob, wrap |-> "none", uuid |-> NoUuid,
     row |-> NoUuid]
\* create_and_store_key: BlobInfo::new(&creation_result.keyBlob,
\* &blob_metadata), the engine's blob without super-encryption.
RawBlobInfo(blob) == [blob |-> blob, wrap |-> "none"]
NoKb == [kind |-> "none", force |-> FALSE]
Wraps == {"none", "stale", "fresh"}

\* SecurityLevel values served by a KeyMint instance.
Tiers == {"TEE", "SB"}

\* Uuid::from(SecurityLevel): the instance's UUID is derived from the level.
UuidOf(sl) == "U_" \o sl

\* The KeystoreSecurityLevel / KeyMintDevice instance under study serves the
\* TRUSTED_ENVIRONMENT level: self.km_uuid.
KmUuid == UuidOf("TEE")
MetaUuids == {UuidOf(sl) : sl \in Tiers} \cup {NoUuid}

VARIABLES
    db,        \* metadata store: StoreKeys -> key entry (blob, wrapping, KmUuid)
    fw,        \* blob format version the engine currently requires
    opTable,   \* OperationDb: live operations, oldest first
    slots,     \* operation slots in use inside the engine
    th,        \* per worker thread: the request it is executing
    logOn,     \* whether the requests' call histories are recorded
    devices,   \* KEY_MINT_DEVICES: tier -> cached (device, hw_info, uuid)
    lock,      \* holder of the KEY_MINT_DEVICES mutex (0 = free)
    rt,        \* per thread: position inside get_keymint_device
    conn,      \* number of engine handles obtained so far
    plat,      \* platform: declared KeyMint instances per tier
    gl,        \* globals.rs statics: DB_INIT, the thread-local DB handles,
               \* BOOT_COMPLETED and the boot watcher, the GC's notification
    keygen,    \* callers' lock around lookup_or_generate_key; generateKey and
               \* store_new_key calls made so far, where they are counted
    ep         \* the IKeystoreSecurityLevel call in progress: its arguments,
               \* the steps still to run and the steps run so far

vars == <<db, fw, opTable, slots, th, logOn, devices, lock, rt, conn, plat, gl,
          keygen, ep>>
lifeVars == <<db, fw, opTable, slots, th, logOn>>
regVars == <<devices, lock, rt, conn, plat, gl>>

\* ------------------------------------------------------------ request log
Ev(e, b) == [e |-> e, b |-> b]
AddLog(log, ev) == IF logOn /\ Len(log) < MaxLog THEN Append(log, ev) ELSE log

CountEv(log, e) == Cardinality({i \in 1..Len(log) : log[i].e = e})

Idle ==
    [pc |-> "idle", kind |-> "none", domain |-> "none", key |-> "none",
     uid |-> "none", forced |-> FALSE, guard0 |-> FALSE, guard |-> FALSE,
     blob |-> NoBlob, arg |-> NoBlob, kb |-> NoKb, metaUuid |-> NoUuid,
     phase |-> 0,
     first |-> "none", second |-> "none", upgraded |-> NoBlob, persistFailed |-> FALSE,
     res |-> "none", out |-> NoBlob, n0 |-> 0, log |-> <<>>,
     lookup |-> "none", old |-> NoBlob, valid |-> "none", added |-> 0,
     post |-> "none"]


\* ------------------------------------------------- super-key wrapping layer
\* SuperKeyManager::unwrap_key_if_required: an unwrapped blob is used by
\* reference; a super-encrypted blob yields owned key material, marked
\* force_reencrypt when its wrapping key is out of date.
UnwrapKeyIfRequired(wrap) ==
    CASE wrap = "none" -> [kind |-> "Ref", force |-> FALSE]
      [] wrap = "stale" -> [kind |-> "Sensitive", force |-> TRUE]
      [] OTHER -> [kind |-> "Sensitive", force |-> FALSE]

\* SuperKeyManager::reencrypt_if_required: material that was super-encrypted
\* is wrapped again with the current wrapping key, anything else is stored
\* as it is.
ReencryptIfRequired(kb, blob) ==
    IF kb.kind = "Sensitive"
    THEN [blob |-> blob, wrap |-> "fresh"]
    ELSE [blob |-> blob, wrap |-> "none"]

\* KeystoreDB::set_blob(key_id_guard, KEY_BLOB, blob, metadata).
SetBlob(d, key, stored, uuid) ==
    [d EXCEPT ![key] = [present |-> TRUE, blob |-> stored.blob,
                        wrap |-> stored.wrap, uuid |-> uuid, row |-> d[key].row]]

\* KeystoreSecurityLevel::store_upgraded_keyblob: the blob to be stored and
\* its metadata are computed, the set_blob call is commented out, Ok(()) is
\* returned: the store is left as it was.
StoreUpgradedKeyblob(d, key, uuid, kb, newBlob) ==
    LET toBeStored == ReencryptIfRequired(kb, newBlob)
        written == SetBlob(d, key, toBeStored, uuid)
    IN d

\* The new-blob handler of KeyMintDevice::upgrade_keyblob_if_required_with:
\* the metadata is built, the set_blob call is commented out.
RawStoreUpgraded(d, key, newBlob) ==
    LET written == SetBlob(d, key, [blob |-> newBlob, wrap |-> "none"], KmUuid)
    IN d

\* Variant: the handler borrows the guard and leaves it in place.
GuardKept(guard) == guard

\* key_id_guard.take() inside the security-level new-blob handler: the guard
\* is consumed by the first store_upgraded_keyblob call.
GuardAfterHandler(guard) == FALSE

\* Variant: the branch is entered whenever a guard is held.
ForceReencryptAlways(kb, guard) == guard

\* The condition of the forced-reencrypt branch after the protocol returned.
ForceReencryptBranch(kb, guard) == kb.force /\ guard

\* Variant: a stored blob is never taken for this device's.
RawBlobNeverUsable(entry) == FALSE

\* KeyMintDevice::lookup_or_generate_key: the stored blob is used only when
\* its metadata names this device's UUID.
RawBlobUsable(entry) == entry.present /\ entry.uuid = KmUuid

\* ------------------------------------------------------------- the engine
Stale(blob) == blob.ver < fw

\* IKeyMintDevice::begin as seen by the caller.
BeginAnswers(blob) ==
    (IF Stale(blob) THEN {"KEY_REQUIRES_UPGRADE"} ELSE {})
    \cup (IF slots >= Capacity THEN {"TOO_MANY_OPERATIONS"} ELSE {})
    \cup (IF ~Stale(blob) /\ slots < Capacity THEN {"Ok"} ELSE {})
    \cup {"INVALID_KEY_BLOB", "ERR"}

\* IKeyMintDevice::getKeyCharacteristics as seen by the caller.
CharacteristicsAnswers(blob) ==
    (IF Stale(blob) THEN {"KEY_REQUIRES_UPGRADE"} ELSE {"Ok"})
    \cup {"INVALID_KEY_BLOB", "ERR"}

\* IKeyMintDevice::upgradeKey: the blob re-encoded in the current format.
UpgradedBlob(blob) == [key |-> blob.key, ver |-> fw, gen |-> blob.gen]

\* ------------------------------------------------------ operation table
\* OperationDb::prune(caller, forced): the victims are the caller's own
\* operations, or any operation when the request is forced; the oldest
\* victim is evicted.
Victims(tbl, uid, forced) ==
    {i \in 1..Len(tbl) : forced \/ tbl[i].owner = uid}

OldestVictim(tbl, uid, forced) ==
    CHOOSE i \in Victims(tbl, uid, forced) :
        \A j \in Victims(tbl, uid, forced) : i <= j

RemoveAt(tbl, i) ==
    [j \in 1..(Len(tbl) - 1) |-> IF j < i THEN tbl[j] ELSE tbl[j + 1]]


\* ------------------------------------------- the key-upgrade protocol core
\* utils::upgrade_keyblob_if_required_with, after km_op returned `ans` in
\* call number `phase`: success ends the run, KEY_REQUIRES_UPGRADE on the
\* first call starts the upgrade, anything else is propagated.
ProtocolNext(phase, ans) ==
    IF ans = "Ok" THEN "post"
    ELSE IF ans = "KEY_REQUIRES_UPGRADE" /\ phase = 1 THEN "upgrade"
    ELSE "done"

\* Variant: a failure of the new-blob handler ends the run.
AfterHandlerPropagates(handlerOk) == IF handlerOk THEN "op" ELSE "done"

\* utils::upgrade_keyblob_if_required_with, after new_blob_handler returned:
\* the operation is retried with the new blob whether or not the handler
\* could persist it.
AfterHandler(handlerOk) == "op"

\* Variant: begin is retried without pruning.
AfterTooManyNoPrune == "op"

\* Variant: the caller's blob is handed back even after an upgrade.
ReturnedBlobOld(keyBlob, upgraded) == keyBlob

\* Variant: the audit arm also takes the engine's other errors.
AuditArmAnyError(ans) == ans \in {"INVALID_KEY_BLOB", "ERR"}

\* The pattern of the audit arm of the begin closure:
\* v @ Err(Error::Km(ErrorCode::INVALID_KEY_BLOB)).
AuditArm(ans) == ans = "INVALID_KEY_BLOB"

\* Variant: a failed audit lookup replaces the error.
AfterInvalidBlobAuditFatal(ans, auditOk) == IF auditOk THEN ans ELSE "ERR"

\* The begin closure on INVALID_KEY_BLOB: `return v` whatever the audit
\* lookup did.
AfterInvalidBlob(ans, auditOk) == ans

\* The begin closure on TOO_MANY_OPERATIONS: prune, then begin again.
AfterTooMany == "prune"

\* KeyMintDevice::upgrade_keyblob_if_required_with: the blob handed back is
\* the upgraded blob when there is one, the caller's blob otherwise.
ReturnedBlob(keyBlob, upgraded) ==
    IF upgraded = NoBlob THEN keyBlob ELSE upgraded

\* Variant: the response carries the upgraded blob for every domain.
ResponseUpgradedBlobAlways(domain, upgraded) == upgraded

\* CreateOperationResponse.upgradedBlob:
\* if key.domain == Domain::BLOB { upgraded_blob } else { None }.
ResponseUpgradedBlob(domain, upgraded) ==
    IF domain = "BLOB" THEN upgraded ELSE NoBlob

\* The closure km_op returned `ans`: the protocol's next step.
OpReturned(c, ans, lg) ==
    LET nxt == ProtocolNext(c.phase, ans)
    IN [c EXCEPT !.log = lg,
                 !.first = IF c.phase = 1 THEN ans ELSE c.first,
                 !.second = IF c.phase = 2 THEN ans ELSE c.second,
                 !.pc = nxt,
                 !.res = IF nxt = "done" THEN ans ELSE c.res]

\* ---------------------------------------------------------------- actions
\* KeystoreSecurityLevel::create_operation up to the first call of the
\* begin closure: the blob comes from the descriptor (Domain::BLOB, no key
\* id guard, empty metadata) or from the metadata store.
CreateOperationStart(t, key, domain, uid, forced, rawVer) ==
    /\ th[t].pc = "idle"
    /\ LET base == [Idle EXCEPT !.kind = "create_operation", !.domain = domain,
                                !.uid = uid, !.forced = forced,
                                !.n0 = Len(opTable)]
           raw == [key |-> "raw", ver |-> rawVer, gen |-> 0]
           e == db[key]
       IN th' = [th EXCEPT ![t] =
            IF domain = "BLOB"
            THEN [base EXCEPT !.key = "raw", !.blob = raw, !.arg = raw,
                              !.kb = UnwrapKeyIfRequired("none"),
                              !.pc = "op", !.phase = 1,
                              !.log = <<Ev("f", raw)>>]
            ELSE IF ~e.present
            THEN [base EXCEPT !.key = key, !.pc = "done",
                              !.res = "KEY_NOT_FOUND"]
            ELSE [base EXCEPT !.key = key, !.guard0 = TRUE, !.guard = TRUE,
                              !.blob = e.blob, !.arg = e.blob,
                              !.metaUuid = e.uuid,
                              !.kb = UnwrapKeyIfRequired(e.wrap),
                              !.pc = "op", !.phase = 1,
                              !.log = <<Ev("f", e.blob)>>]]
    /\ UNCHANGED <<db, fw, opTable, slots, logOn, regVars, keygen, ep>>

\* One iteration of the begin closure of create_operation.
Begin(t) ==
    /\ th[t].pc = "op"
    /\ th[t].kind = "create_operation"
    /\ \E ans \in BeginAnswers(th[t].arg), auditOk \in BOOLEAN :
         LET c == th[t]
             lg == AddLog(c.log, Ev("begin", c.arg))
         IN /\ th' = [th EXCEPT ![t] =
                 CASE ans = "TOO_MANY_OPERATIONS" ->
                        [c EXCEPT !.log = lg, !.pc = AfterTooMany]
                   [] AuditArm(ans) ->
                        OpReturned(c, AfterInvalidBlob(ans, auditOk),
                            IF c.guard0
                            THEN AddLog(lg, Ev(IF auditOk THEN "audit"
                                               ELSE "audit_failed", c.arg))
                            ELSE lg)
                   [] OTHER -> OpReturned(c, ans, lg)]
            /\ slots' = IF ans = "Ok" THEN slots + 1 ELSE slots
    /\ UNCHANGED <<db, fw, opTable, logOn, regVars, keygen, ep>>

\* self.operation_db.prune(caller_uid, forced)? inside the begin closure.
Prune(t) ==
    /\ th[t].pc = "prune"
    /\ LET c == th[t]
           lg == AddLog(c.log, Ev("prune", NoBlob))
       IN IF Victims(opTable, c.uid, c.forced) = {}
          THEN /\ th' = [th EXCEPT ![t] = OpReturned(c, "NO_VICTIM", lg)]
               /\ UNCHANGED <<opTable, slots>>
          ELSE /\ opTable' = RemoveAt(opTable,
                                 OldestVictim(opTable, c.uid, c.forced))
               /\ slots' = slots - 1
               /\ th' = [th EXCEPT ![t] = [c EXCEPT !.log = lg, !.pc = "op"]]
    /\ UNCHANGED <<db, fw, logOn, regVars, keygen, ep>>

\* km_dev.upgradeKey(key_blob, upgrade_params).
UpgradeKey(t) ==
    /\ th[t].pc = "upgrade"
    /\ \E ok \in BOOLEAN :
         LET c == th[t]
             lg == AddLog(c.log, Ev("upgradeKey", c.arg))
         IN th' = [th EXCEPT ![t] =
              IF ok
              THEN [c EXCEPT !.log = lg, !.upgraded = UpgradedBlob(c.arg),
                             !.pc = "handler"]
              ELSE [c EXCEPT !.log = lg, !.pc = "done", !.res = "ERR"]]
    /\ UNCHANGED <<db, fw, opTable, slots, logOn, regVars, keygen, ep>>

\* new_blob_handler(upgraded_blob), then the second call of km_op.
NewBlobHandler(t) ==
    /\ th[t].pc = "handler"
    /\ \E reencOk \in BOOLEAN :
         LET c == th[t]
             sl == c.kind = "create_operation"
             stores == sl /\ c.guard
             handlerOk == ~stores \/ reencOk
             lg1 == AddLog(c.log, Ev("handler", c.upgraded))
             lg2 == IF stores THEN AddLog(lg1, Ev("store", c.upgraded)) ELSE lg1
             nxt == AfterHandler(handlerOk)
         IN /\ db' = IF sl
                     THEN (IF stores /\ reencOk
                           THEN StoreUpgradedKeyblob(db, c.key, c.metaUuid,
                                                     c.kb, c.upgraded)
                           ELSE db)
                     ELSE RawStoreUpgraded(db, c.key, c.upgraded)
            /\ th' = [th EXCEPT ![t] =
                 IF nxt = "op"
                 THEN [c EXCEPT !.guard = IF stores THEN GuardAfterHandler(c.guard)
                                          ELSE c.guard,
                                !.persistFailed = ~handlerOk,
                                !.phase = 2, !.arg = c.upgraded, !.pc = "op",
                                !.log = AddLog(lg2, Ev("f", c.upgraded))]
                 ELSE [c EXCEPT !.guard = IF stores THEN GuardAfterHandler(c.guard)
                                          ELSE c.guard,
                                !.persistFailed = ~handlerOk,
                                !.log = lg2, !.pc = "done", !.res = "ERR"]]
    /\ UNCHANGED <<fw, opTable, slots, logOn, regVars, keygen, ep>>


\* create_operation after the protocol returned Ok((begin_result,
\* upgraded_blob)): the forced-reencrypt branch of
\* KeystoreSecurityLevel::upgrade_keyblob_if_required_with, then the
\* begin_result.operation is matched: None is answered with a system error;
\* Some(km_op) is registered with operation_db.create_operation, and only
\* then the operation is turned into an IKeystoreOperation binder, which
\* can fail (`?`), and the response is built.
CreateOperationPost(t) ==
    /\ th[t].pc = "post"
    /\ th[t].kind = "create_operation"
    /\ \E reencOk \in BOOLEAN, kmOp \in BOOLEAN, binderOk \in BOOLEAN :
         LET c == th[t]
             stores == ForceReencryptBranch(c.kb, c.guard)
             lg == IF stores THEN AddLog(c.log, Ev("store", c.blob)) ELSE c.log
         IN IF stores /\ ~reencOk
            THEN /\ kmOp /\ binderOk
                 /\ th' = [th EXCEPT ![t] =
                      [c EXCEPT !.log = lg, !.pc = "done", !.res = "ERR",
                                !.post = "reencrypt"]]
                 /\ UNCHANGED <<db, opTable, slots>>
            ELSE /\ reencOk
                 /\ ~kmOp => binderOk
                 /\ db' = IF stores
                          THEN StoreUpgradedKeyblob(db, c.key, c.metaUuid,
                                                    c.kb, c.blob)
                          ELSE db
                 /\ opTable' = IF kmOp THEN Append(opTable, [owner |-> c.uid])
                               ELSE opTable
                 /\ slots' = IF kmOp THEN slots ELSE slots - 1
                 /\ th' = [th EXCEPT ![t] =
                      IF ~kmOp
                      THEN [c EXCEPT !.log = lg, !.pc = "done",
                                     !.res = "SYSTEM_ERROR",
                                     !.post = "no_operation"]
                      ELSE IF ~binderOk
                      THEN [c EXCEPT !.log = lg, !.pc = "done", !.res = "ERR",
                                     !.added = @ + 1, !.post = "binder"]
                      ELSE [c EXCEPT !.log = lg, !.pc = "done", !.res = "Ok",
                                     !.added = @ + 1,
                                     !.out = ResponseUpgradedBlob(c.domain,
                                                                   c.upgraded)]]
    /\ UNCHANGED <<fw, logOn, regVars, keygen, ep>>

\* ------------------------------------------- lookup_or_generate_key
\* "Caller must hold a lock before calling": callers that follow the
\* discipline enter one at a time.
CallerMayEnter(k) == k.discipline => k.holder = 0
AcquireCallerLock(k, t) == IF k.discipline THEN [k EXCEPT !.holder = t] ELSE k
ReleaseCallerLock(k, t) == IF k.holder = t THEN [k EXCEPT !.holder = 0] ELSE k

\* Calls are counted (and generated keys thereby numbered) and failures of
\* generateKey and store_new_key remembered where the run is metered.
Metered(k, n) == IF k.metered THEN n + 1 ELSE n
MeteredFailure(k, ok) == k.failed \/ (k.metered /\ ~ok)

\* Nobody is inside lookup_or_generate_key; calls are not counted.
KeygenQuiet ==
    keygen = [discipline |-> TRUE, holder |-> 0, metered |-> FALSE,
              generated |-> 0, stored |-> 0, failed |-> FALSE]

\* KeyMintDevice::lookup_from_desc: db.load_key_entry finds the entry, reports
\* KEY_NOT_FOUND, or fails in the database.
LookupFromDesc(e) ==
    (IF e.present THEN {"Ok"} ELSE {"KEY_NOT_FOUND"}) \cup {"DB_ERR"}

\* Variant: every failed lookup counts as an absent key.
AnyErrorIsNone(lookup) == IF lookup = "Ok" THEN "Some" ELSE "None"

\* KeyMintDevice::not_found_is_none.
NotFoundIsNone(lookup) ==
    CASE lookup = "Ok" -> "Some"
      [] lookup = "KEY_NOT_FOUND" -> "None"
      [] OTHER -> "Err"

\* Variant: the stored key is replaced whatever the callback says.
CharacteristicsNeverAccepted(valid) == FALSE

\* if validate_characteristics(&key_characteristics) { return Ok(..) }
CharacteristicsAccepted(valid) == valid

\* KeystoreDB::store_new_key(key, .., blob_info, .., km_uuid): the descriptor
\* is bound to a new key entry recorded under km_uuid, whose blob and blob
\* metadata (wrapping, KmUuid) are those of blob_info.
StoreNewKey(d, key, info, metaUuid, kmUuid) ==
    [d EXCEPT ![key] = [present |-> TRUE, blob |-> info.blob, wrap |-> info.wrap,
                        uuid |-> metaUuid, row |-> kmUuid]]

\* KeyMintDevice::lookup_or_generate_key, first lookup: a lookup error other
\* than KEY_NOT_FOUND is returned; a usable stored blob enters the upgrade
\* protocol with getKeyCharacteristics as the operation; anything else goes
\* on to key generation.
LookupOrGenerateStart(t, key) ==
    /\ th[t].pc = "idle"
    /\ CallerMayEnter(keygen)
    /\ keygen' = AcquireCallerLock(keygen, t)
    /\ \E lookup \in LookupFromDesc(db[key]) :
         LET e == db[key]
             found == NotFoundIsNone(lookup)
             base == [Idle EXCEPT !.kind = "lookup_or_generate", !.key = key,
                                  !.domain = "APP", !.n0 = Len(opTable),
                                  !.lookup = lookup]
         IN th' = [th EXCEPT ![t] =
              CASE found = "Err" ->
                     [base EXCEPT !.pc = "done", !.res = lookup]
                [] found = "Some" /\ RawBlobUsable(e) ->
                     [base EXCEPT !.guard0 = TRUE, !.guard = TRUE,
                                  !.blob = e.blob, !.arg = e.blob,
                                  !.old = e.blob,
                                  !.metaUuid = e.uuid,
                                  !.kb = [kind |-> "NonSensitive", force |-> FALSE],
                                  !.pc = "op", !.phase = 1,
                                  !.log = <<Ev("f", e.blob)>>]
                [] OTHER ->
                     [base EXCEPT !.guard0 = e.present, !.guard = e.present,
                                  !.old = e.blob,
                                  !.metaUuid = e.uuid, !.pc = "gen"]]
    /\ UNCHANGED <<db, fw, opTable, slots, logOn, regVars, ep>>

\* The getKeyCharacteristics closure of lookup_or_generate_key.
GetKeyCharacteristics(t) ==
    /\ th[t].pc = "op"
    /\ th[t].kind = "lookup_or_generate"
    /\ \E ans \in CharacteristicsAnswers(th[t].arg) :
         LET c == th[t]
             lg == AddLog(c.log, Ev("getKeyCharacteristics", c.arg))
         IN th' = [th EXCEPT ![t] = OpReturned(c, ans, lg)]
    /\ UNCHANGED <<db, fw, opTable, slots, logOn, regVars, keygen, ep>>

\* lookup_or_generate_key after the protocol returned: the blob (upgraded
\* or not) is returned when validate_characteristics accepts it; otherwise
\* the key is generated anew.
LookupOrGeneratePost(t, valid) ==
    /\ th[t].pc = "post"
    /\ th[t].kind = "lookup_or_generate"
    /\ LET c == [th[t] EXCEPT !.valid = IF valid THEN "yes" ELSE "no"]
       IN th' = [th EXCEPT ![t] =
            IF CharacteristicsAccepted(valid)
            THEN [c EXCEPT !.pc = "done", !.res = "Ok",
                           !.out = ReturnedBlob(c.blob, c.upgraded)]
            ELSE [c EXCEPT !.pc = "gen"]]
    /\ UNCHANGED <<db, fw, opTable, slots, logOn, regVars, keygen, ep>>

\* create_and_store_key, the creator: km_dev.generateKey(params, None)
\* yields fresh key material (named "k1", as the raw device's stored
\* material is) in the engine's current format, or fails.
GenerateKey(t) ==
    /\ th[t].pc = "gen"
    /\ keygen.generated < MaxGen
    /\ \E genOk \in BOOLEAN :
         LET c == th[t]
             nb == [key |-> "k1", ver |-> fw,
                    gen |-> Metered(keygen, keygen.generated)]
             lg == AddLog(c.log, Ev("generateKey", NoBlob))
         IN /\ keygen' = [keygen EXCEPT !.generated = Metered(keygen, @),
                                        !.failed = MeteredFailure(keygen, genOk)]
            /\ th' = [th EXCEPT ![t] =
                 IF genOk
                 THEN [c EXCEPT !.log = lg, !.arg = nb, !.pc = "store"]
                 ELSE [c EXCEPT !.log = lg, !.pc = "done", !.res = "ERR"]]
    /\ UNCHANGED <<db, fw, opTable, slots, logOn, regVars, ep>>

\* Variant: the blob metadata is left without a KmUuid entry.
BlobMetaNoUuid(uuid) == NoUuid

\* blob_metadata.add(BlobMetaEntry::KmUuid(self.km_uuid)).
BlobMetaKmUuid(uuid) == uuid

\* create_and_store_key, db.store_new_key with this device's KmUuid in the
\* blob metadata; a database failure is returned.
CreateAndStoreKey(t) ==
    /\ th[t].pc = "store"
    /\ \E storeOk \in BOOLEAN :
         LET c == th[t]
             lg == AddLog(c.log, Ev("store_new_key", c.arg))
         IN /\ keygen' = [keygen EXCEPT !.stored = Metered(keygen, @),
                                        !.failed = MeteredFailure(keygen, storeOk)]
            /\ db' = IF storeOk
                     THEN StoreNewKey(db, c.key, RawBlobInfo(c.arg),
                                      BlobMetaKmUuid(KmUuid), KmUuid)
                     ELSE db
            /\ th' = [th EXCEPT ![t] =
                 IF storeOk
                 THEN [c EXCEPT !.log = lg, !.pc = "reread"]
                 ELSE [c EXCEPT !.log = lg, !.pc = "done", !.res = "DB_ERR"]]
    /\ UNCHANGED <<fw, opTable, slots, logOn, regVars, ep>>

\* lookup_or_generate_key, second lookup: the entry is read again in a
\* transaction of its own and its blob is returned.
SecondLookup(t) ==
    /\ th[t].pc = "reread"
    /\ \E lookup \in LookupFromDesc(db[th[t].key]) :
         LET c == th[t]
             e == db[c.key]
             lg == AddLog(c.log, Ev("second_lookup", e.blob))
         IN th' = [th EXCEPT ![t] =
              IF lookup = "Ok"
              THEN [c EXCEPT !.log = lg, !.pc = "done", !.res = "Ok",
                             !.out = e.blob]
              ELSE [c EXCEPT !.log = lg, !.pc = "done", !.res = lookup]]
    /\ UNCHANGED <<db, fw, opTable, slots, logOn, regVars, keygen, ep>>

\* The request's result has been handed to the caller; a caller of
\* lookup_or_generate_key lets go of its lock.
Return(t) ==
    /\ th[t].pc = "done"
    /\ th' = [th EXCEPT ![t] = Idle]
    /\ keygen' = ReleaseCallerLock(keygen, t)
    /\ UNCHANGED <<db, fw, opTable, slots, logOn, regVars, ep>>

\* -------------------------------------- IKeystoreSecurityLevel entry points
\* Key descriptor domains: APP, SELINUX, BLOB, and KEY_ID for the others.
Domains == {"APP", "SELINUX", "BLOB", "KEY_ID"}

\* Operation parameters: a PURPOSE tag with a KeyPurpose value or with a
\* value of another kind, and two other tags.
ParamUniverse ==
    {[tag |-> "PURPOSE", val |-> "KeyPurpose"], [tag |-> "PURPOSE", val |-> "Other"],
     [tag |-> "DIGEST", val |-> "Digest"], [tag |-> "PADDING", val |-> "Padding"]}
ParamLists == UNION {[1..n -> ParamUniverse] : n \in 0..MaxParams}

\* A key descriptor's domain and namespace; the descriptor returned by
\* store_new_key (Domain::BLOB with the blob, or Domain::KEY_ID).

EpIdle ==
    [pc |-> "idle", api |-> "none", domain |-> "none", alias |-> FALSE,
     blob |-> FALSE, wdomain |-> "none", forced |-> FALSE, params |-> <<>>,
     todo |-> <<>>, trace |-> <<>>, passed |-> <<>>, res |-> "none",
     blobs |-> <<>>, upgraded |-> "none",
     uid |-> "none", nspace |-> "none", hw |-> 0, key |-> [domain |-> "none", nspace |-> "none"],
     checked |-> [domain |-> "none", nspace |-> "none"],
     created |-> NoBlob, wrapped |-> RawBlobInfo(NoBlob),
     desc |-> [domain |-> "none", blob |-> NoBlob]]

EntryQuiet == ep = EpIdle

\* create_operation: operation_parameters.iter().find(|p| p.tag ==
\* Tag::PURPOSE), then the match on its value.
PurposeOutcome(params) ==
    LET idx == {i \in 1..Len(params) : params[i].tag = "PURPOSE"}
    IN IF idx = {} THEN "INVALID_ARGUMENT"
       ELSE LET first == CHOOSE i \in idx : \A j \in idx : i <= j
            IN IF params[first].val = "KeyPurpose" THEN "ok"
               ELSE "INVALID_ARGUMENT"

\* Variant: the caller's list is passed on as it is.
OpParamsUnfiltered(params) == params

\* create_operation: op_params = operation_parameters.iter().filter(|p|
\* p.tag != Tag::PURPOSE).cloned().collect().
OpParams(params) ==
    LET NotPurpose(kp) == kp.tag # "PURPOSE"
    IN SelectSeq(params, NotPurpose)

\* Variant: the engine is called before the rebind check.
GenerateKeyPlanEngineFirst(domain) ==
    <<"alias", "engine:generateKey", "perm:Rebind", "store_new_key">>

\* generate_key: alias check, rebind check, attestation key lookup (not for
\* Domain::BLOB), add_required_parameters, generateKey, store_new_key.
GenerateKeyPlan(domain) ==
    <<"alias", "perm:Rebind">>
    \o (IF domain = "BLOB" THEN <<>> ELSE <<"get_attest_key_info">>)
    \o <<"add_required_parameters", "engine:generateKey", "store_new_key">>

\* Variant: the rebind check comes before the alias check.
ImportKeyPlanPermissionFirst ==
    <<"perm:Rebind", "alias", "add_required_parameters", "algorithm",
      "engine:importKey", "store_new_key">>

\* import_key: alias check, rebind check, add_required_parameters, key
\* format from the ALGORITHM parameter, importKey, store_new_key.
ImportKeyPlan ==
    <<"alias", "perm:Rebind", "add_required_parameters", "algorithm",
      "engine:importKey", "store_new_key">>

\* import_wrapped_key: descriptor check, wrapping key domain check, rebind
\* check for the new key, load of the wrapping key with its use check,
\* unwrap_key_if_required, importWrappedKey, store_new_key.
ImportWrappedKeyPlan ==
    <<"wrapped_descriptor", "wrapping_domain", "perm:Rebind", "load_key_entry",
      "perm:Use", "km_blob", "unwrap_key_if_required",
      "engine:importWrappedKey", "store_new_key">>

\* Variant: deleteKey is called before the delete check.
DeleteKeyPlanEngineFirst ==
    <<"blob_domain", "blob_present", "engine:deleteKey", "perm:Delete">>

\* delete_key: domain check, blob check, delete check, deleteKey.
DeleteKeyPlan ==
    <<"blob_domain", "blob_present", "perm:Delete", "engine:deleteKey">>

\* convert_storage_key_to_ephemeral: domain check, blob check, capability
\* check, convertStorageKeyToEphemeral.
ConvertPlan ==
    <<"blob_domain", "blob_present", "perm:ConvertStorageKeyToEphemeral",
      "engine:convertStorageKeyToEphemeral">>

\* create_operation up to the first begin: for Domain::BLOB the use check,
\* the forced-operation check when forced, the blob of the descriptor;
\* for the other domains load_key_entry with both checks in its callback,
\* then the KM blob of the entry.  Then the purpose, authorize_create,
\* unwrap_key_if_required and begin.
CreateOperationPlan(domain, forced) ==
    (IF domain = "BLOB" THEN <<>> ELSE <<"load_key_entry">>)
    \o <<"perm:Use">>
    \o (IF forced THEN <<"perm:ReqForcedOp">> ELSE <<>>)
    \o (IF domain = "BLOB" THEN <<"blob_or_sys">> ELSE <<"km_blob">>)
    \o <<"purpose", "authorize_create", "unwrap_key_if_required", "engine:begin">>

Plan(api, domain, forced) ==
    CASE api = "generate_key" -> GenerateKeyPlan(domain)
      [] api = "import_key" -> ImportKeyPlan
      [] api = "import_wrapped_key" -> ImportWrappedKeyPlan
      [] api = "delete_key" -> DeleteKeyPlan
      [] api = "convert_storage_key_to_ephemeral" -> ConvertPlan
      [] OTHER -> CreateOperationPlan(domain, forced)

EntryApis ==
    {"generate_key", "import_key", "import_wrapped_key", "delete_key",
     "convert_storage_key_to_ephemeral", "create_operation"}

PermSteps ==
    {"perm:Rebind", "perm:Use", "perm:ReqForcedOp", "perm:Delete",
     "perm:ConvertStorageKeyToEphemeral"}

EngineSteps ==
    {"engine:generateKey", "engine:importKey", "engine:importWrappedKey",
     "engine:deleteKey", "engine:convertStorageKeyToEphemeral",
     "engine:upgradeKey", "engine:convertStorageKeyToEphemeral(2)",
     "engine:begin"}

\* generate_key, import_key: key.domain != Domain::BLOB && key.alias.is_none().
AliasMissing(e) == e.domain # "BLOB" /\ ~e.alias

\* import_wrapped_key: the descriptor must be of Domain::APP or
\* Domain::SELINUX with blob: Some(..) and alias: Some(_).
WrappedDescriptorOk(e) == e.domain \in {"APP", "SELINUX"} /\ e.blob /\ e.alias

\* What a step of an entry point can come to: the argument checks are
\* decided by the arguments, the policy engine grants or denies, the store,
\* the engine and the other collaborators succeed or fail.
Outcomes(step, e) ==
    CASE step = "alias" ->
           IF AliasMissing(e) THEN {"INVALID_ARGUMENT"} ELSE {"ok"}
      [] step = "wrapped_descriptor" ->
           IF WrappedDescriptorOk(e) THEN {"ok"} ELSE {"INVALID_ARGUMENT"}
      [] step = "wrapping_domain" ->
           IF e.wdomain = "BLOB" THEN {"INVALID_ARGUMENT"} ELSE {"ok"}
      [] step = "blob_domain" ->
           IF e.domain # "BLOB" THEN {"INVALID_ARGUMENT"} ELSE {"ok"}
      [] step = "blob_present" ->
           IF e.blob THEN {"ok"} ELSE {"INVALID_ARGUMENT"}
      [] step = "blob_or_sys" ->
           IF e.blob THEN {"ok"} ELSE {"SYSTEM_ERROR"}
      [] step = "km_blob" -> {"ok", "SYSTEM_ERROR"}
      [] step = "purpose" -> {PurposeOutcome(e.params)}
      [] step = "algorithm" -> {"ok", "INVALID_ARGUMENT"}
      [] step = "add_required_parameters" ->
           {"ok", "INVALID_ARGUMENT", "PERMISSION_DENIED", "ERR"}
      [] step \in PermSteps -> {"ok", "PERMISSION_DENIED"}
      [] step = "load_key_entry" -> {"ok", "KEY_NOT_FOUND"}
      [] step \in {"engine:convertStorageKeyToEphemeral",
                   "engine:convertStorageKeyToEphemeral(2)"} ->
           {"ok", "KEY_REQUIRES_UPGRADE", "ERR"}
      [] OTHER -> {"ok", "ERR"}

\* convert_storage_key_to_ephemeral: the blob handed to the engine is the
\* descriptor's key_blob in the first convert call and in upgradeKey, and
\* upgradeKey's result in the second convert call.
ConvertSteps ==
    {"engine:convertStorageKeyToEphemeral", "engine:upgradeKey",
     "engine:convertStorageKeyToEphemeral(2)"}
ConvertBlob(step) ==
    IF step = "engine:convertStorageKeyToEphemeral(2)" THEN "upgraded_blob"
    ELSE "key_blob"

\* EphemeralStorageKeyResponse.upgradedBlob: None after the first convert,
\* Some(upgraded_blob) after the second.
ConvertResponse(step) ==
    IF step = "engine:convertStorageKeyToEphemeral(2)" THEN "upgraded_blob"
    ELSE "none"

\* Variant: the second convert call is treated like the first.
ContinueRetryAgain(step, o, rest) ==
    IF o = "ok" THEN rest
    ELSE IF step \in {"engine:convertStorageKeyToEphemeral",
                      "engine:convertStorageKeyToEphemeral(2)"}
            /\ o = "KEY_REQUIRES_UPGRADE"
    THEN <<"engine:upgradeKey", "engine:convertStorageKeyToEphemeral(2)">>
    ELSE <<>>

\* The steps that follow a step's outcome: the rest of the function after
\* success; after KEY_REQUIRES_UPGRADE from the first convert call upgradeKey
\* and the second convert call; nothing after any other error (`?`).
Continue(step, o, rest) ==
    IF o = "ok" THEN rest
    ELSE IF step = "engine:convertStorageKeyToEphemeral" /\ o = "KEY_REQUIRES_UPGRADE"
    THEN <<"engine:upgradeKey", "engine:convertStorageKeyToEphemeral(2)">>
    ELSE <<>>

\* A call of one of the entry points arrives.
EntryCall(api, domain, alias, blob, wdomain, forced, params) ==
    /\ ep.pc = "idle"
    /\ ep' = [EpIdle EXCEPT !.pc = "run", !.api = api, !.domain = domain,
                            !.alias = alias, !.blob = blob, !.wdomain = wdomain,
                            !.forced = forced, !.params = params,
                            !.todo = Plan(api, domain, forced)]
    /\ UNCHANGED <<lifeVars, regVars, keygen>>

\* The next step of the entry point runs.
EntryStep ==
    /\ ep.pc = "run"
    /\ \E o \in Outcomes(Head(ep.todo), ep) :
         LET step == Head(ep.todo)
             todo == Continue(step, o, Tail(ep.todo))
         IN ep' = [ep EXCEPT
                !.trace = Append(@, [s |-> step, o |-> o]),
                !.passed = IF step = "engine:begin" THEN OpParams(ep.params) ELSE @,
                !.blobs = IF step \in ConvertSteps
                          THEN Append(@, ConvertBlob(step)) ELSE @,
                !.upgraded = IF todo = <<>> /\ o = "ok"
                                /\ ep.api = "convert_storage_key_to_ephemeral"
                             THEN ConvertResponse(step) ELSE "none",
                !.todo = todo,
                !.pc = IF todo = <<>> THEN "done" ELSE "run",
                !.res = IF todo # <<>> THEN "none"
                        ELSE IF o = "ok" THEN "Ok" ELSE o]
    /\ UNCHANGED <<lifeVars, regVars, keygen>>

\* The entry point's result has been handed to the caller.
EntryReturn ==
    /\ ep.pc = "done"
    /\ ep' = EpIdle
    /\ UNCHANGED <<lifeVars, regVars, keygen>>

\* ------------------------------------------- key creation, with its data
\* Key parameters a caller can pass.
KeyParamUniverse ==
    {[tag |-> "CREATION_DATETIME", val |-> "caller"],
     [tag |-> "ALGORITHM", val |-> "RSA"], [tag |-> "ALGORITHM", val |-> "EC"],
     [tag |-> "ALGORITHM", val |-> "AES"],
     [tag |-> "CERTIFICATE_NOT_BEFORE", val |-> "caller"],
     [tag |-> "CERTIFICATE_NOT_AFTER", val |-> "caller"]}

HasTag(params, tag) == \E i \in 1..Len(params) : params[i].tag = tag

\* params.iter().find(|kp| kp.tag == Tag::ALGORITHM): the first ALGORITHM
\* parameter's value, "none" without one.
FindAlgorithm(params) ==
    LET idx == {i \in 1..Len(params) : params[i].tag = "ALGORITHM"}
    IN IF idx = {} THEN "none"
       ELSE params[CHOOSE i \in idx : \A j \in idx : i <= j].val

\* Variant: the creation timestamp is added whatever the backend version.
CreationDatetimeAlways(hw) == <<[tag |-> "CREATION_DATETIME", val |-> "now"]>>

\* add_required_parameters: CREATION_DATETIME is pushed only if
\* self.hw_info.versionNumber >= 100.
CreationDatetime(hw) ==
    IF hw >= 100 THEN <<[tag |-> "CREATION_DATETIME", val |-> "now"]>> ELSE <<>>

\* add_required_parameters: for an RSA or EC key CERTIFICATE_NOT_BEFORE and
\* CERTIFICATE_NOT_AFTER are pushed, each only if the caller gave none.
ValidityDefaults(params) ==
    IF FindAlgorithm(params) \in {"RSA", "EC"}
    THEN (IF HasTag(params, "CERTIFICATE_NOT_BEFORE") THEN <<>>
          ELSE <<[tag |-> "CERTIFICATE_NOT_BEFORE", val |-> "0"]>>)
         \o (IF HasTag(params, "CERTIFICATE_NOT_AFTER") THEN <<>>
             ELSE <<[tag |-> "CERTIFICATE_NOT_AFTER", val |-> "UNDEFINED_NOT_AFTER"]>>)
    ELSE <<>>

\* add_required_parameters, the Ok result: the caller's list followed by
\* the parameters the service adds.
AddRequiredParameters(hw, params) ==
    params \o CreationDatetime(hw) \o ValidityDefaults(params)

\* add_required_parameters, its possible results for a parameter list: a
\* caller-supplied CREATION_DATETIME is INVALID_ARGUMENT; the unique-id
\* check can deny only a list with INCLUDE_UNIQUE_ID; the clock and, with
\* INCLUDE_UNIQUE_ID, the id rotation state can fail.
AddRequiredOutcomes(params) ==
    IF HasTag(params, "CREATION_DATETIME") THEN {"INVALID_ARGUMENT"}
    ELSE {"ok", "ERR"}
         \cup (IF HasTag(params, "INCLUDE_UNIQUE_ID") THEN {"PERMISSION_DENIED"}
               ELSE {})

\* import_key: the key format follows from the first ALGORITHM parameter;
\* without one, or with an unknown algorithm, the call ends with
\* INVALID_ARGUMENT.
KeyFormatOutcome(params) ==
    IF FindAlgorithm(params) \in {"AES", "RSA", "EC"} THEN "ok"
    ELSE "INVALID_ARGUMENT"

\* The parameters handed to the engine: generate_key and import_key pass
\* the result of add_required_parameters, import_wrapped_key passes the
\* caller's list.
EngineParams(api, hw, params) ==
    IF api = "import_wrapped_key" THEN params
    ELSE AddRequiredParameters(hw, params)

\* Variant: the descriptor is used as the caller wrote it.
CallerKeyAsGiven(domain, nspace, uid) == [domain |-> domain, nspace |-> nspace]

\* generate_key, import_key, import_wrapped_key: for Domain::APP the
\* descriptor's nspace is replaced by the calling uid; other descriptors
\* keep theirs.
CallerKey(domain, nspace, uid) ==
    IF domain = "APP" THEN [domain |-> "APP", nspace |-> uid]
    ELSE [domain |-> domain, nspace |-> nspace]

\* SuperKeyManager::handle_super_encryption_on_key_init: the blob comes
\* back as it is or super-encrypted, with the blob metadata saying which.
SuperEncryptionOnKeyInit(blob, encrypt) ==
    [blob |-> blob, wrap |-> IF encrypt THEN "fresh" ELSE "none"]

\* Variant: the engine's blob is written as the engine returned it.
BlobInfoEngine(engineBlob, wrapped) == [blob |-> engineBlob, wrap |-> "none"]

\* store_new_key: `let (key_blob, mut blob_metadata) =
\* handle_super_encryption_on_key_init(.., &key_blob)` shadows the engine's
\* blob; BlobInfo::new(&key_blob, &blob_metadata) is what is stored.
BlobInfo(engineBlob, wrapped) == wrapped

\* A call of generate_key, import_key or import_wrapped_key arrives, from
\* the caller uid, for the descriptor (domain, nspace, alias), on a service
\* whose backend has version hw.
CreateKeyCall(api, domain, nspace, uid, hw, params) ==
    /\ ep.pc = "idle"
    /\ ep' = [EpIdle EXCEPT !.pc = "run", !.api = api, !.domain = domain,
                            !.alias = TRUE, !.blob = (api = "import_wrapped_key"),
                            !.wdomain = IF api = "import_wrapped_key" THEN "APP"
                                        ELSE "none",
                            !.params = params, !.uid = uid, !.nspace = nspace,
                            !.hw = hw, !.todo = Plan(api, domain, FALSE)]
    /\ UNCHANGED <<lifeVars, regVars, keygen>>

\* The next step of the call, any but store_new_key: the rebind check is
\* made on the rewritten descriptor, the engine gets EngineParams and
\* returns the new key's blob.
CreateKeyStep ==
    /\ ep.pc = "run"
    /\ ep.uid # "none"
    /\ Head(ep.todo) # "store_new_key"
    /\ \E o \in Outcomes(Head(ep.todo), ep) :
         LET step == Head(ep.todo)
             todo == Continue(step, o, Tail(ep.todo))
             key == CallerKey(ep.domain, ep.nspace, ep.uid)
             isEngine == step \in {"engine:generateKey", "engine:importKey",
                                   "engine:importWrappedKey"}
         IN /\ step = "add_required_parameters" => o \in AddRequiredOutcomes(ep.params)
            /\ step = "algorithm" =>
                  o = KeyFormatOutcome(AddRequiredParameters(ep.hw, ep.params))
            /\ ep' = [ep EXCEPT
                !.trace = Append(@, [s |-> step, o |-> o]),
                !.key = IF step = "perm:Rebind" THEN key ELSE @,
                !.checked = IF step = "perm:Rebind" THEN key ELSE @,
                !.passed = IF isEngine THEN EngineParams(ep.api, ep.hw, ep.params)
                           ELSE @,
                !.created = IF isEngine /\ o = "ok"
                            THEN [key |-> "new", ver |-> fw, gen |-> 0] ELSE @,
                !.todo = todo,
                !.pc = IF todo = <<>> THEN "done" ELSE "run",
                !.res = IF todo # <<>> THEN "none"
                        ELSE IF o = "ok" THEN "Ok" ELSE o]
    /\ UNCHANGED <<lifeVars, regVars, keygen>>

\* store_new_key: a Domain::BLOB key is returned inside the descriptor and
\* nothing is written; any other key goes through super-encryption and is
\* written with this instance's KmUuid in the blob metadata, under this
\* instance's km_uuid, and a Domain::KEY_ID descriptor is returned.  The
\* clock, the super-key layer and the store can fail; nothing is written
\* then.
StoreNewKeyStep ==
    /\ ep.pc = "run"
    /\ ep.uid # "none"
    /\ Head(ep.todo) = "store_new_key"
    /\ \E o \in {"ok", "ERR"}, encrypt \in BOOLEAN :
         LET wrapped == SuperEncryptionOnKeyInit(ep.created, encrypt)
             info == BlobInfo(ep.created, wrapped)
             write == o = "ok" /\ ep.key.domain # "BLOB"
         IN /\ (ep.key.domain = "BLOB" \/ o # "ok") => ~encrypt
            /\ db' = IF write
                     THEN StoreNewKey(db, ep.key, info, BlobMetaKmUuid(KmUuid), KmUuid)
                     ELSE db
            /\ ep' = [ep EXCEPT
                !.trace = Append(@, [s |-> "store_new_key", o |-> o]),
                !.wrapped = IF write THEN wrapped ELSE @,
                !.desc = IF o # "ok" THEN EpIdle.desc
                         ELSE IF ep.key.domain = "BLOB"
                         THEN [domain |-> "BLOB", blob |-> ep.created]
                         ELSE [domain |-> "KEY_ID", blob |-> NoBlob],
                !.todo = <<>>,
                !.pc = "done",
                !.res = IF o = "ok" THEN "Ok" ELSE o]
    /\ UNCHANGED <<fw, opTable, slots, th, logOn, regVars, keygen>>

\* A client finishes or aborts one of its operations.
FinishOperation(i) ==
    /\ i \in 1..Len(opTable)
    /\ opTable' = RemoveAt(opTable, i)
    /\ slots' = slots - 1
    /\ UNCHANGED <<db, fw, th, logOn, regVars, keygen, ep>>

\* The engine starts to require a newer blob format.
FirmwareUpdate ==
    /\ fw < MaxFw
    /\ fw' = fw + 1
    /\ UNCHANGED <<db, opTable, slots, th, logOn, regVars, keygen, ep>>

\* ------------------------------------------------------ device registry
\* SecurityLevel values a caller may ask for.
RegTiers == {"TEE", "SB", "SW"}
RegUuids == {UuidOf(sl) : sl \in RegTiers}
NoDev == [dev |-> 0, ver |-> 0, wrapped |-> FALSE, uuid |-> NoUuid]
NoSvc == [err |-> "none", hal |-> 0, wrapped |-> FALSE, bridge |-> FALSE,
          dev |-> 0]
\* versionNumber values an engine's own getHardwareInfo may report: the
\* legacy wrapper reports 10 * major + minor, a KeyMint reports anything.
ReportedVersions(hal) == IF hal = 0 THEN {40, 41} ELSE {41, 300}

RegIdle == [pc |-> "idle", api |-> "none", tier |-> "none", uuid |-> NoUuid,
            hit |-> FALSE,
            res |-> "none", out |-> NoDev, svc |-> NoSvc, io |-> FALSE,
            tries |-> 0, rep |-> 0, ret |-> "none"]

\* The entry points: get_keymint_device itself, KeyMintDevice::get and
\* KeyMintDevice::get_or_none on top of it.
RegApis == {"get_keymint_device", "get", "get_or_none"}

\* DevicesMap::dev_by_uuid.
DevByUuid(dm, uuid) ==
    IF uuid \in DOMAIN dm.byUuid THEN dm.byUuid[uuid] ELSE NoDev

\* Variant: the lookup by security level never finds the cached entry.
DevBySecLevelMiss(dm, sl) == NoDev

\* DevicesMap::dev_by_sec_level.
DevBySecLevel(dm, sl) ==
    IF dm.byLevel[sl] = NoUuid THEN NoDev ELSE DevByUuid(dm, dm.byLevel[sl])

\* DevicesMap::insert: the UUID is derived from the requested level.
DevInsert(dm, sl, e) ==
    [byUuid |-> [dm.byUuid EXCEPT ![UuidOf(sl)] =
                    [e EXCEPT !.uuid = UuidOf(sl)]],
     byLevel |-> [dm.byLevel EXCEPT ![sl] = UuidOf(sl)]]

\* Variant: no declared instance is ever found.
ServiceNameNone(p, sl) ==
    IF sl \in {"TEE", "SB"} THEN "none" ELSE "HARDWARE_TYPE_UNAVAILABLE"

\* keymint_service_name: the declared instance for the level, none, or an
\* error for a level that has no KeyMint.
ServiceName(p, sl) ==
    IF sl \in {"TEE", "SB"}
    THEN (IF p[sl].native # 0 THEN "native" ELSE "none")
    ELSE "HARDWARE_TYPE_UNAVAILABLE"

\* The match on hal_version in connect_keymint: 0 stands for None.
\* "asis", "wrap" or an error.
SelectAdapter(hal) ==
    CASE hal \in {400, 300, 200} -> "asis"
      [] hal = 100 -> "wrap"
      [] hal = 0 -> "wrap"
      [] OTHER -> "HARDWARE_TYPE_UNAVAILABLE"

\* connect_keymint up to the adapter selection. ifaceOk: the binder interface
\* was obtained; verOk: getInterfaceVersion answered; wrapOk:
\* BacklevelKeyMintWrapper::wrap succeeded.
ConnectService(p, sl, ifaceOk, verOk, wrapOk, id) ==
    LET name == ServiceName(p, sl)
        hal == IF name = "native" THEN p[sl].native * 100 ELSE 0
        sel == SelectAdapter(hal)
        fail(e, b) == [NoSvc EXCEPT !.err = e, !.bridge = b]
    IN CASE name = "HARDWARE_TYPE_UNAVAILABLE" -> fail(name, FALSE)
         [] name = "native" /\ ~ifaceOk -> fail("CONNECT_FAILED", FALSE)
         [] name = "native" /\ ~verOk -> fail("CONNECT_FAILED", FALSE)
         [] name = "none" /\ ~ifaceOk -> fail("CONNECT_FAILED", TRUE)
         [] name = "none" /\ ~p[sl].legacy ->
                fail("HARDWARE_TYPE_UNAVAILABLE", TRUE)
         [] sel = "HARDWARE_TYPE_UNAVAILABLE" -> fail(sel, FALSE)
         [] sel = "wrap" /\ ~wrapOk -> fail("WRAP_FAILED", name = "none")
         [] OTHER -> [err |-> "none", hal |-> hal, wrapped |-> sel = "wrap",
                      bridge |-> name = "none", dev |-> id]

\* crate::utils::retry_get_interface, used for TRUSTED_ENVIRONMENT: one
\* attempt to obtain the interface, its failure is returned.
RetryGetInterface(ok) == [ok |-> ok, tries |-> 1]

\* binder::get_interface: one attempt.
GetInterface(ok) == [ok |-> ok, tries |-> 1]

\* Variant: the error of connect_keymint is not propagated.
ConnectFailedIgnored(svc) == FALSE

\* connect_keymint(security_level).context(..)?: an error leaves
\* get_keymint_device before the insert.
ConnectFailed(svc) == svc.err # "none"

\* Variant: every failure is turned into None.
GetOrNoneAlways(res) == IF res = "Ok" THEN "Some" ELSE "None"

\* KeyMintDevice::get_or_none: None when the root cause of the failure of
\* KeyMintDevice::get is Km(HARDWARE_TYPE_UNAVAILABLE), the error otherwise.
GetOrNone(res) ==
    CASE res = "Ok" -> "Some"
      [] res = "HARDWARE_TYPE_UNAVAILABLE" -> "None"
      [] OTHER -> res

\* What the entry point hands to its caller for the result `res` of
\* get_keymint_device.
ApiResult(api, res) ==
    IF api = "get_or_none" THEN GetOrNone(res)
    ELSE IF res = "Ok" THEN "Some" ELSE res

\* get_keymint_device has returned `res`, `out`: the guard is dropped and
\* the entry point maps the result.
RegFinish(c, res, out) ==
    [c EXCEPT !.pc = "done", !.res = res, !.out = out,
              !.ret = ApiResult(c.api, res)]

\* Variant: a legacy engine is given the version of KeyMint V1.
NormalizedVersionLegacy100(hal, reported) == IF hal # 0 THEN hal ELSE 100

\* Variant: the engine's own answer is kept.
NormalizedVersionReported(hal, reported) == reported

\* The versionNumber kept in hw_info: the normalized HAL version when there
\* is one, the engine's own answer otherwise.
NormalizedVersion(hal, reported) == IF hal # 0 THEN hal ELSE reported

\* get_keymint_device is called: the thread waits for the registry mutex.
GetKeymintDevice(t, sl, api) ==
    /\ rt[t].pc = "idle"
    /\ rt' = [rt EXCEPT ![t] = [RegIdle EXCEPT !.pc = "wait", !.tier = sl,
                                               !.api = api]]
    /\ UNCHANGED <<devices, lock, conn, plat, gl, lifeVars, keygen, ep>>

\* Variant: the thread goes on without waiting for the mutex.
RegLockNoWait(t) ==
    /\ rt[t].pc = "wait"
    /\ lock' = t
    /\ rt' = [rt EXCEPT ![t].pc = "lookup"]
    /\ UNCHANGED <<devices, conn, plat, gl, lifeVars, keygen, ep>>

\* KEY_MINT_DEVICES.lock().
RegLock(t) ==
    /\ rt[t].pc = "wait"
    /\ lock = 0
    /\ lock' = t
    /\ rt' = [rt EXCEPT ![t].pc = "lookup"]
    /\ UNCHANGED <<devices, conn, plat, gl, lifeVars, keygen, ep>>

\* devices_map.dev_by_sec_level(security_level): a hit is returned and the
\* guard dropped, a miss goes on to connect_keymint with the guard held.
RegLookup(t) ==
    /\ rt[t].pc = "lookup"
    /\ LET e == DevBySecLevel(devices, rt[t].tier)
       IN IF e.dev # 0
          THEN /\ rt' = [rt EXCEPT ![t] =
                          RegFinish([rt[t] EXCEPT !.hit = TRUE], "Ok", e)]
               /\ lock' = 0
          ELSE /\ rt' = [rt EXCEPT ![t].pc = "connect"]
               /\ UNCHANGED lock
    /\ UNCHANGED <<devices, conn, plat, gl, lifeVars, keygen, ep>>

\* connect_keymint: service discovery, connection, adapter selection.
RegConnect(t) ==
    /\ rt[t].pc = "connect"
    /\ \E ifaceOk \in (IF conn < MaxConn THEN BOOLEAN ELSE {FALSE}),
          verOk \in BOOLEAN, wrapOk \in BOOLEAN :
         LET c == rt[t]
             name == ServiceName(plat, c.tier)
             iface == IF name = "native" /\ c.tier = "TEE"
                      THEN RetryGetInterface(ifaceOk)
                      ELSE GetInterface(ifaceOk)
             reached == name # "HARDWARE_TYPE_UNAVAILABLE"
             svc == ConnectService(plat, c.tier, iface.ok, verOk, wrapOk,
                                   conn + 1)
             d == [c EXCEPT !.svc = svc, !.io = TRUE,
                            !.tries = IF reached THEN iface.tries ELSE 0]
             handle == \/ name = "native" /\ iface.ok
                       \/ name = "none" /\ iface.ok /\ plat[c.tier].legacy
         IN /\ conn' = IF handle THEN conn + 1 ELSE conn
            /\ IF ConnectFailed(svc)
               THEN /\ rt' = [rt EXCEPT ![t] = RegFinish(d, svc.err, NoDev)]
                    /\ lock' = 0
               ELSE /\ rt' = [rt EXCEPT ![t] = [d EXCEPT !.pc = "hwinfo"]]
                    /\ UNCHANGED lock
    /\ UNCHANGED <<devices, plat, gl, lifeVars, keygen, ep>>

\* keymint.getHardwareInfo(), the version override, devices_map.insert and
\* the second dev_by_sec_level; the guard is dropped on return.
RegHardwareInfo(t) ==
    /\ rt[t].pc = "hwinfo"
    /\ \E ok \in BOOLEAN, reported \in ReportedVersions(rt[t].svc.hal) :
         LET c == rt[t]
             e == [dev |-> c.svc.dev,
                   ver |-> NormalizedVersion(c.svc.hal, reported),
                   wrapped |-> c.svc.wrapped, uuid |-> NoUuid]
             dm == DevInsert(devices, c.tier, e)
         IN IF ok
            THEN /\ devices' = dm
                 /\ rt' = [rt EXCEPT ![t] =
                            RegFinish([c EXCEPT !.rep = reported], "Ok",
                                      DevBySecLevel(dm, c.tier))]
            ELSE /\ rt' = [rt EXCEPT ![t] =
                            RegFinish(c, "HWINFO_FAILED", NoDev)]
                 /\ UNCHANGED devices
    /\ lock' = 0
    /\ UNCHANGED <<conn, plat, gl, lifeVars, keygen, ep>>

\* The result has been handed to the caller.
RegReturn(t) ==
    /\ rt[t].pc = "done"
    /\ rt' = [rt EXCEPT ![t] = RegIdle]
    /\ UNCHANGED <<devices, lock, conn, plat, gl, lifeVars, keygen, ep>>

\* Variant: a UUID that is not cached makes the call connect to the
\* engine and cache it.
GetKeymintDevByUuidConnecting(t, uuid) ==
    /\ rt[t].pc = "idle"
    /\ lock = 0
    /\ LET e == DevByUuid(devices, uuid)
           n == [dev |-> conn + 1, ver |-> 300, wrapped |-> FALSE, uuid |-> uuid]
           c == [RegIdle EXCEPT !.api = "get_keymint_dev_by_uuid", !.uuid = uuid]
       IN IF e.dev # 0
          THEN /\ rt' = [rt EXCEPT ![t] =
                          [c EXCEPT !.pc = "done", !.hit = TRUE, !.res = "Ok",
                                    !.out = [e EXCEPT !.uuid = NoUuid],
                                    !.ret = "Some"]]
               /\ UNCHANGED <<devices, conn>>
          ELSE /\ uuid \in RegUuids
               /\ conn < MaxConn
               /\ conn' = conn + 1
               /\ devices' = [devices EXCEPT !.byUuid[uuid] = n]
               /\ rt' = [rt EXCEPT ![t] =
                          [c EXCEPT !.pc = "done", !.io = TRUE, !.res = "Ok",
                                    !.out = [n EXCEPT !.uuid = NoUuid],
                                    !.ret = "Some"]]
    /\ UNCHANGED <<lock, plat, gl, lifeVars, keygen, ep>>

\* get_keymint_dev_by_uuid: under the registry mutex, dev_by_uuid; the
\* device and hardware info of a hit are returned, a miss is
\* Err(Error::sys()); the guard is dropped on return.
GetKeymintDevByUuid(t, uuid) ==
    /\ rt[t].pc = "idle"
    /\ lock = 0
    /\ LET e == DevByUuid(devices, uuid)
           c == [RegIdle EXCEPT !.api = "get_keymint_dev_by_uuid", !.uuid = uuid]
       IN rt' = [rt EXCEPT ![t] =
            IF e.dev # 0
            THEN [c EXCEPT !.pc = "done", !.hit = TRUE, !.res = "Ok",
                           !.out = [e EXCEPT !.uuid = NoUuid], !.ret = "Some"]
            ELSE [c EXCEPT !.pc = "done", !.res = "SYSTEM_ERROR",
                           !.ret = "SYSTEM_ERROR"]]
    /\ UNCHANGED <<devices, lock, conn, plat, gl, lifeVars, keygen, ep>>

\* ------------------------------------------- thread-local store handles
\* The process has just started: DB_INIT is new, no thread has touched its
\* DB key, sys.boot_completed is not set, BOOT_COMPLETED is false and the
\* thread running await_boot_completed is about to watch the property.
\* cleanedOn names the connection cleanup_leftovers last ran on; failed and
\* seen remember whether a watch has failed or has seen the value "1".
GlIdle ==
    [dbInit |-> "new", opened |-> 0, cleanups |-> 0, cleanedOn |-> 0,
     tl |-> [t \in Threads |-> [pc |-> "none", db |-> 0, used |-> 0]],
     prop |-> "0", boot |-> FALSE, wpc |-> "watch", failed |-> FALSE,
     seen |-> FALSE, gc |-> FALSE]

\* thread_local DB, first access by the thread (or first since its
\* initializer panicked): create_thread_local_db opens the thread's
\* connection with KeystoreDB::new or panics.
CreateThreadLocalDb(t) ==
    /\ gl.tl[t].pc \in {"none", "panicked"}
    /\ gl.opened < MaxOpen
    /\ \E ok \in BOOLEAN :
         gl' = IF ok
               THEN [gl EXCEPT !.opened = @ + 1,
                               !.tl[t] = [pc |-> "opened", db |-> gl.opened + 1,
                                          used |-> 0]]
               ELSE [gl EXCEPT !.tl[t].pc = "panicked"]
    /\ UNCHANGED <<lifeVars, devices, lock, rt, conn, plat, keygen, ep>>

\* Variant: the closure is run whether or not it has been run.
CallOnceUnguarded(state) == IF state = "poisoned" THEN "panic" ELSE "run"

\* std::sync::Once::call_once by the state of the Once: the first caller
\* runs the closure, callers arriving while it runs wait, later callers
\* skip it, and a Once whose closure panicked panics in every caller.
CallOnce(state) ==
    CASE state = "new" -> "run"
      [] state = "running" -> "wait"
      [] state = "done" -> "skip"
      [] OTHER -> "panic"

\* DB_INIT.call_once(..) in create_thread_local_db, with the connection
\* just opened; a thread that skips the closure returns its connection.
DbInitCallOnce(t) ==
    /\ gl.tl[t].pc = "opened"
    /\ LET does == CallOnce(gl.dbInit)
       IN /\ does # "wait"
          /\ gl' = CASE does = "run" ->
                          [gl EXCEPT !.dbInit = "running", !.tl[t].pc = "cleaning"]
                     [] does = "skip" -> [gl EXCEPT !.tl[t].pc = "ready"]
                     [] OTHER -> [gl EXCEPT !.tl[t] = [pc |-> "panicked", db |-> 0,
                                                      used |-> 0]]
    /\ UNCHANGED <<lifeVars, devices, lock, rt, conn, plat, keygen, ep>>

\* The closure: db.cleanup_leftovers().expect(..) on the caller's
\* connection; its failure panics, which poisons DB_INIT and drops the
\* connection.
CleanupLeftovers(t) ==
    /\ gl.tl[t].pc = "cleaning"
    /\ \E ok \in BOOLEAN :
         gl' = IF ok
               THEN [gl EXCEPT !.cleanups = @ + 1, !.cleanedOn = gl.tl[t].db,
                               !.dbInit = "done", !.tl[t].pc = "ready"]
               ELSE [gl EXCEPT !.cleanups = @ + 1, !.cleanedOn = gl.tl[t].db,
                               !.dbInit = "poisoned",
                               !.tl[t] = [pc |-> "panicked", db |-> 0, used |-> 0]]
    /\ UNCHANGED <<lifeVars, devices, lock, rt, conn, plat, keygen, ep>>

\* DB.with(|db| ..) on a thread whose DB key is initialized: the closure
\* is given the thread's own connection.
DbWith(t) ==
    /\ gl.tl[t].pc = "ready"
    /\ gl.tl[t].used = 0
    /\ gl' = [gl EXCEPT !.tl[t].used = gl.tl[t].db]
    /\ UNCHANGED <<lifeVars, devices, lock, rt, conn, plat, keygen, ep>>

\* ------------------------------------------------------- boot completion
\* Variant: the loop is left whatever the watch returned.
AfterWatchAnyResult(res) == "store"

\* while let Err(e) = watch_for_boot_completed() { log; sleep 5 s }: an
\* error goes round the loop, Ok leaves it.
AfterWatch(res) == IF res = "Ok" THEN "store" ELSE "watch"

\* watch_for_boot_completed: PropertyWatcher::new and wait_for_value("1")
\* can fail; wait_for_value returns Ok only once the property is "1".
WatchForBootCompleted ==
    /\ gl.wpc = "watch"
    /\ \E res \in (IF gl.prop = "1" THEN {"Ok", "Err"} ELSE {"Err"}) :
         gl' = [gl EXCEPT !.wpc = AfterWatch(res),
                          !.failed = @ \/ res = "Err",
                          !.seen = @ \/ res = "Ok"]
    /\ UNCHANGED <<lifeVars, devices, lock, rt, conn, plat, keygen, ep>>

\* BOOT_COMPLETED.store(true, Ordering::Release).
StoreBootCompleted ==
    /\ gl.wpc = "store"
    /\ gl' = [gl EXCEPT !.boot = TRUE, !.wpc = "notify"]
    /\ UNCHANGED <<lifeVars, devices, lock, rt, conn, plat, keygen, ep>>

\* GC.notify_gc(), the last statement of await_boot_completed.
NotifyGc ==
    /\ gl.wpc = "notify"
    /\ gl' = [gl EXCEPT !.gc = TRUE, !.wpc = "end"]
    /\ UNCHANGED <<lifeVars, devices, lock, rt, conn, plat, keygen, ep>>

\* init sets sys.boot_completed=1.
BootPropertySet ==
    /\ gl.prop = "0"
    /\ gl' = [gl EXCEPT !.prop = "1"]
    /\ UNCHANGED <<lifeVars, devices, lock, rt, conn, plat, keygen, ep>>

PlatformChoices ==
    {[native |-> n, legacy |-> FALSE] : n \in 1..MaxAidl}
    \cup {[native |-> 0, legacy |-> b] : b \in BOOLEAN}

\* KEY_MINT_DEVICES starts empty (Default), nobody holds the mutex.
RegEmpty ==
    /\ devices = [byUuid |-> [u \in RegUuids |-> NoDev],
                  byLevel |-> [sl \in RegTiers |-> NoUuid]]
    /\ lock = 0
    /\ rt = [t \in Threads |-> RegIdle]
    /\ conn = 0
    /\ gl = GlIdle

RegInit ==
    /\ RegEmpty
    /\ plat \in [{"TEE", "SB"} -> PlatformChoices]

\* A device whose two tiers are KeyMint V3 instances.
RegQuiet ==
    /\ RegEmpty
    /\ plat = [sl \in {"TEE", "SB"} |-> [native |-> 3, legacy |-> FALSE]]

RegStep(t) ==
    \/ \E sl \in RegTiers : GetKeymintDevice(t, sl, "get_keymint_device")
    \/ RegLock(t)
    \/ RegLookup(t)
    \/ RegConnect(t)
    \/ RegHardwareInfo(t)
    \/ RegReturn(t)

RegNext == \E t \in Threads : RegStep(t)

\* The registry alone: the key store holds one current key and no request
\* is running.
RegistryInit ==
    /\ RegInit
    /\ fw = 0
    /\ db = [k \in StoreKeys |-> NoEntry]
    /\ opTable = <<>>
    /\ slots = 0
    /\ th = [t \in Threads |-> Idle]
    /\ logOn = FALSE
    /\ KeygenQuiet
    /\ EntryQuiet

SpecRegistry == RegistryInit /\ [][RegNext]_vars

\* One thread resolving tiers through any of the entry points, one call
\* after the other.
ResolveNext ==
    \/ \E sl \in RegTiers, api \in RegApis : GetKeymintDevice(1, sl, api)
    \/ RegLock(1)
    \/ RegLookup(1)
    \/ RegConnect(1)
    \/ RegHardwareInfo(1)
    \/ RegReturn(1)

SpecResolve == RegistryInit /\ [][ResolveNext]_vars

\* One thread resolving tiers while another asks for devices by UUID: the
\* UUIDs of the three tiers and one that no tier has.
ByUuidNext ==
    \/ RegStep(1)
    \/ \E uuid \in RegUuids \cup {"U_other"} : GetKeymintDevByUuid(2, uuid)
    \/ RegReturn(2)

SpecByUuid == RegistryInit /\ [][ByUuidNext]_vars

\* ----------------------------------------------------------- initial state
StoredEntries(v) ==
    {NoEntry} \cup
    {[present |-> TRUE, blob |-> [key |-> "k1", ver |-> x, gen |-> 0], wrap |-> w,
      uuid |-> u, row |-> u] : x \in 0..v, w \in Wraps, u \in MetaUuids}

LifeInit ==
    /\ fw \in 0..MaxFw
    /\ db \in [StoreKeys -> StoredEntries(fw)]
    /\ opTable = <<>>
    /\ slots = 0
    /\ th = [t \in Threads |-> Idle]
    /\ logOn = TRUE
    /\ KeygenQuiet
    /\ EntryQuiet

Init == LifeInit /\ RegQuiet

Step(t) ==
    \/ \E key \in StoreKeys, domain \in {"APP", "BLOB"}, uid \in Uids,
          forced \in BOOLEAN, rawVer \in 0..fw :
          CreateOperationStart(t, key, domain, uid, forced, rawVer)
    \/ Begin(t)
    \/ Prune(t)
    \/ UpgradeKey(t)
    \/ NewBlobHandler(t)
    \/ CreateOperationPost(t)
    \/ \E key \in StoreKeys : LookupOrGenerateStart(t, key)
    \/ GetKeyCharacteristics(t)
    \/ \E valid \in BOOLEAN : LookupOrGeneratePost(t, valid)
    \/ GenerateKey(t)
    \/ CreateAndStoreKey(t)
    \/ SecondLookup(t)
    \/ Return(t)

Env ==
    \/ \E i \in 1..Capacity : FinishOperation(i)
    \/ FirmwareUpdate

Next == Step(1) \/ Env

Spec == Init /\ [][Next]_vars

\* create_operation alone: one request at a time on stored keys and on
\* caller-supplied blobs, with firmware updates and clients finishing
\* their operations.
OperationStep(t) ==
    \/ \E key \in StoreKeys, domain \in {"APP", "BLOB"}, uid \in Uids,
          forced \in BOOLEAN, rawVer \in 0..fw :
          CreateOperationStart(t, key, domain, uid, forced, rawVer)
    \/ Begin(t)
    \/ Prune(t)
    \/ UpgradeKey(t)
    \/ NewBlobHandler(t)
    \/ CreateOperationPost(t)
    \/ Return(t)

OperationNext == OperationStep(1) \/ Env

SpecOperation == Init /\ [][OperationNext]_vars


\* ------------------------------------------- concurrent operation admission
\* Two worker threads create operations on caller-supplied blobs; call
\* histories are not recorded.
AdmInit ==
    /\ fw = 0
    /\ db = [k \in StoreKeys |-> NoEntry]
    /\ opTable = <<>>
    /\ slots = 0
    /\ th = [t \in Threads |-> Idle]
    /\ logOn = FALSE
    /\ RegQuiet
    /\ KeygenQuiet
    /\ EntryQuiet

AdmStep(t) ==
    \/ \E uid \in Uids, forced \in BOOLEAN :
          CreateOperationStart(t, "k1", "BLOB", uid, forced, 0)
    \/ Begin(t)
    \/ Prune(t)
    \/ CreateOperationPost(t)
    \/ Return(t)

AdmNext ==
    \/ \E t \in Threads : AdmStep(t)
    \/ \E i \in 1..Capacity : FinishOperation(i)

\* Every worker thread of the binder thread pool is scheduled again and again.
FairAdmission ==
    /\ AdmInit
    /\ [][AdmNext]_vars
    /\ \A t \in Threads : WF_vars(AdmStep(t))

\* ------------------------------------------------ admission under exhaustion
\* Another binder thread's create_operation succeeds: its begin takes a slot
\* of the engine and its operation is entered in the operation table.
OtherCallerBegins(uid) ==
    /\ slots < Capacity
    /\ slots' = slots + 1
    /\ opTable' = Append(opTable, [owner |-> uid])
    /\ UNCHANGED <<db, fw, th, logOn, regVars, keygen, ep>>

ExhaustInit ==
    /\ fw = 0
    /\ db = [k \in StoreKeys |-> NoEntry]
    /\ opTable = <<>>
    /\ slots = 0
    /\ th = [t \in Threads |-> Idle]
    /\ logOn = TRUE
    /\ RegQuiet
    /\ KeygenQuiet
    /\ EntryQuiet

\* One recorded create_operation request at a time on a caller-supplied
\* blob, while other callers take and release slots; the request's history is
\* followed as long as the record has room for it.
ExhaustNext ==
    \/ \E uid \in Uids, forced \in BOOLEAN :
          CreateOperationStart(1, "k1", "BLOB", uid, forced, 0)
    \/ (Len(th[1].log) + 2 <= MaxLog /\ Begin(1))
    \/ Prune(1)
    \/ CreateOperationPost(1)
    \/ Return(1)
    \/ \E i \in 1..Capacity : FinishOperation(i)
    \/ \E uid \in Uids : OtherCallerBegins(uid)

SpecExhaust == ExhaustInit /\ [][ExhaustNext]_vars

\* ------------------------------------------------ internal-key provisioning
\* Callers of lookup_or_generate_key on the worker threads, with or without
\* the lock discipline; calls are counted and generated keys numbered.
KeygenMetered ==
    keygen \in {[discipline |-> d, holder |-> 0, metered |-> TRUE,
                 generated |-> 0, stored |-> 0, failed |-> FALSE] :
            d \in BOOLEAN}

LookupInit ==
    /\ fw \in 0..MaxFw
    /\ db \in [StoreKeys -> StoredEntries(fw)]
    /\ opTable = <<>>
    /\ slots = 0
    /\ th = [t \in Threads |-> Idle]
    /\ logOn = TRUE
    /\ RegQuiet
    /\ KeygenMetered
    /\ EntryQuiet

\* The keys generated with the callers' parameters have the characteristics
\* the callers' validate callback asks for; keys found in the store at the
\* start may or may not.
ValidateAnswers(blob) == IF blob.gen > 0 THEN {TRUE} ELSE BOOLEAN

LookupStep(t) ==
    \/ \E key \in StoreKeys : LookupOrGenerateStart(t, key)
    \/ GetKeyCharacteristics(t)
    \/ UpgradeKey(t)
    \/ NewBlobHandler(t)
    \/ \E valid \in ValidateAnswers(th[t].blob) : LookupOrGeneratePost(t, valid)
    \/ GenerateKey(t)
    \/ CreateAndStoreKey(t)
    \/ SecondLookup(t)
    \/ Return(t)

LookupNext ==
    \/ \E t \in Threads : LookupStep(t)
    \/ FirmwareUpdate

SpecLookup == LookupInit /\ [][LookupNext]_vars

\* The same callers on a store that does not hold the key yet.
AbsentInit ==
    /\ fw \in 0..MaxFw
    /\ db = [k \in StoreKeys |-> NoEntry]
    /\ opTable = <<>>
    /\ slots = 0
    /\ th = [t \in Threads |-> Idle]
    /\ logOn = TRUE
    /\ RegQuiet
    /\ KeygenMetered
    /\ EntryQuiet

SpecAbsentKey == AbsentInit /\ [][LookupNext]_vars

\* ------------------------------------------------ entry points, one call
\* at a time, with every descriptor shape and every parameter list.
EntryInit ==
    /\ fw = 0
    /\ db = [k \in StoreKeys |-> NoEntry]
    /\ opTable = <<>>
    /\ slots = 0
    /\ th = [t \in Threads |-> Idle]
    /\ logOn = FALSE
    /\ RegQuiet
    /\ KeygenQuiet
    /\ EntryQuiet

EntryNext ==
    \/ \E api \in EntryApis \ {"create_operation", "import_wrapped_key"},
          domain \in Domains, alias \in BOOLEAN, blob \in BOOLEAN :
          EntryCall(api, domain, alias, blob, "none", FALSE, <<>>)
    \/ \E domain \in Domains, alias \in BOOLEAN, blob \in BOOLEAN,
          wdomain \in {"APP", "BLOB"} :
          EntryCall("import_wrapped_key", domain, alias, blob, wdomain, FALSE, <<>>)
    \/ /\ ep.pc = "idle"
       /\ \E domain \in Domains, blob \in BOOLEAN, forced \in BOOLEAN,
             params \in ParamLists :
             EntryCall("create_operation", domain, domain # "BLOB", blob, "none",
                       forced, params)
    \/ EntryStep
    \/ EntryReturn

SpecEntry == EntryInit /\ [][EntryNext]_vars

\* ---------------------------------------------- key creation by two uids
\* in every created-key namespace, the store empty at the start.
CreateInit ==
    /\ fw = 0
    /\ db = [k \in {[domain |-> d, nspace |-> n] :
                        d \in {"APP", "SELINUX"}, n \in Uids} |-> NoEntry]
    /\ opTable = <<>>
    /\ slots = 0
    /\ th = [t \in Threads |-> Idle]
    /\ logOn = FALSE
    /\ RegQuiet
    /\ KeygenQuiet
    /\ EntryQuiet

CreateNext ==
    \/ \E api \in {"generate_key", "import_key", "import_wrapped_key"},
          domain \in {"APP", "SELINUX", "BLOB"}, nspace \in Uids, uid \in Uids :
          CreateKeyCall(api, domain, nspace, uid, 100,
                        <<[tag |-> "ALGORITHM", val |-> "AES"]>>)
    \/ CreateKeyStep
    \/ StoreNewKeyStep
    \/ EntryReturn

SpecCreate == CreateInit /\ [][CreateNext]_vars

\* ------------------------------------- key creation, every parameter list
\* of a caller, on a Keymaster 4.1 backend behind the compatibility layer
\* (version 41) and on a KeyMint V1 backend (version 100).
ParamsNext ==
    \/ /\ ep.pc = "idle"
       /\ \E api \in {"generate_key", "import_key", "import_wrapped_key"},
             hw \in {41, 100},
             params \in UNION {[1..n -> KeyParamUniverse] : n \in 0..MaxParams} :
             CreateKeyCall(api, "APP", "u1", "u1", hw, params)
    \/ CreateKeyStep
    \/ StoreNewKeyStep
    \/ EntryReturn

SpecParams == CreateInit /\ [][ParamsNext]_vars

\* ------------------------------------------------ process-wide state
\* The worker threads touching their DB keys while the system boots and
\* await_boot_completed runs on its own thread.
GlobalsNext ==
    \/ \E t \in Threads :
          \/ CreateThreadLocalDb(t)
          \/ DbInitCallOnce(t)
          \/ CleanupLeftovers(t)
          \/ DbWith(t)
    \/ WatchForBootCompleted
    \/ StoreBootCompleted
    \/ NotifyGc
    \/ BootPropertySet

SpecGlobals == CreateInit /\ [][GlobalsNext]_vars

\* ------------------------------------------ both writers of key entries:
\* a client creates a key through the security level while a raw-device
\* user looks the same entry up, and creates it when it is not usable, on
\* the same KeyMint instance; the store is empty at the start.
KeyUuidNext ==
    \/ \E api \in {"generate_key", "import_key", "import_wrapped_key"} :
          CreateKeyCall(api, "SELINUX", "u1", "u1", 100,
                        <<[tag |-> "ALGORITHM", val |-> "AES"]>>)
    \/ CreateKeyStep
    \/ StoreNewKeyStep
    \/ EntryReturn
    \/ LookupOrGenerateStart(1, [domain |-> "SELINUX", nspace |-> "u1"])
    \/ GetKeyCharacteristics(1)
    \/ UpgradeKey(1)
    \/ NewBlobHandler(1)
    \/ \E valid \in BOOLEAN : LookupOrGeneratePost(1, valid)
    \/ GenerateKey(1)
    \/ CreateAndStoreKey(1)
    \/ SecondLookup(1)
    \/ Return(1)
    \/ FirmwareUpdate

SpecKeyUuid == CreateInit /\ [][KeyUuidNext]_vars

\* ================================================================== claims
HasEv(log, ev) == \E i \in 1..Len(log) : log[i] = ev
Returned(c) == c.pc = "done"
\* The result of the upgrade protocol's run inside the request: Ok when
\* the request went on past it and failed afterwards, the request's result
\* otherwise.
RunResult(c) == IF c.post = "none" THEN c.res ELSE "Ok"
ProtocolOver(c) == c.pc \in {"post", "done"}

\* C1: whenever a run of the upgrade protocol for a stored key (key id guard
\* held) obtained an upgraded blob from upgradeKey, the metadata store holds
\* the upgraded blob, tagged with the engine UUID, when the run has returned
\* (stated for the most favourable case: the run succeeded, the handler
\* reported no failure, the stored metadata named this engine).
C1_UpgradedBlobPersisted ==
    \A t \in Threads :
        LET c == th[t]
        IN (/\ Returned(c) /\ c.res = "Ok" /\ c.guard0
            /\ c.upgraded # NoBlob /\ ~c.persistFailed
            /\ c.metaUuid = KmUuid /\ ~HasEv(c.log, Ev("generateKey", NoBlob)))
           => /\ db[c.key].present
              /\ db[c.key].blob = c.upgraded
              /\ db[c.key].uuid = KmUuid

\* C2: a stored blob whose metadata names another engine's UUID, or none, is
\* never passed to an engine call.
C2_ForeignBlobNeverUsed ==
    \A t \in Threads :
        LET c == th[t]
        IN (c.guard0 /\ c.metaUuid # KmUuid)
           => \A i \in 1..Len(c.log) :
                 c.log[i].e \notin {"begin", "getKeyCharacteristics", "upgradeKey"}

C4_CreateOperationReturns ==
    \A t \in Threads : (th[t].pc = "op") ~> (th[t].pc = "done")

\* C5: a run on an already-current blob (the first call of the operation
\* succeeds) calls the operation once, never calls upgradeKey, never invokes
\* the new-blob handler, and stores nothing unless the blob is marked
\* force_reencrypt and a key id guard is held.
C5_CurrentBlobSingleCall ==
    \A t \in Threads :
        LET c == th[t]
        IN c.first = "Ok" =>
             /\ CountEv(c.log, "f") = 1
             /\ CountEv(c.log, "upgradeKey") = 0
             /\ CountEv(c.log, "handler") = 0
             /\ c.upgraded = NoBlob
             /\ c.kind = "lookup_or_generate" =>
                   CountEv(c.log, "getKeyCharacteristics") = 1
             /\ CountEv(c.log, "store") > 0 => (c.kb.force /\ c.guard0)

C5_Witness ==
    \E t \in Threads :
        LET c == th[t]
        IN /\ Returned(c) /\ c.first = "Ok" /\ c.res = "Ok" /\ c.guard0
           /\ ~c.kb.force /\ c.kind = "create_operation"
           /\ Len(opTable) = Capacity

\* C6: when the operation reports that the blob requires an upgrade,
\* upgradeKey is called once with the old blob, then the handler once with
\* the new blob, then the operation once more with the new blob; the second
\* result is the run's result and the new blob is handed back with it; there
\* is no second upgrade in the run.
C6_UpgradeThenRetryOnce ==
    \A t \in Threads :
        LET c == th[t]
            lg == c.log
        IN /\ CountEv(lg, "upgradeKey") <= 1
           /\ CountEv(lg, "handler") <= 1
           /\ CountEv(lg, "f") <= 2
           /\ (c.first = "KEY_REQUIRES_UPGRADE" /\ ProtocolOver(c)) =>
                 HasEv(lg, Ev("upgradeKey", c.blob))
           /\ (c.upgraded # NoBlob /\ ProtocolOver(c)) =>
                 /\ c.second # "none"
                 /\ \E i, j, k \in 1..Len(lg) :
                       /\ i < j /\ j < k
                       /\ lg[i] = Ev("upgradeKey", c.blob)
                       /\ lg[j] = Ev("handler", c.upgraded)
                       /\ lg[k] = Ev("f", c.upgraded)
                       /\ \A m \in (k + 1)..Len(lg) :
                             lg[m].e \in {"begin", "getKeyCharacteristics"}
                                => lg[m].b = c.upgraded
           /\ (c.pc = "post" /\ c.phase = 2) => c.second = "Ok"
           /\ (Returned(c) /\ c.phase = 2 /\ c.kind = "create_operation") =>
                 RunResult(c) = c.second
           /\ (/\ Returned(c) /\ c.phase = 2 /\ c.kind = "lookup_or_generate"
               /\ ~HasEv(lg, Ev("generateKey", NoBlob))) =>
                 (c.res = c.second /\ (c.res = "Ok" => c.out = c.upgraded))

C6_Witness ==
    \E t \in Threads :
        LET c == th[t]
        IN /\ Returned(c) /\ c.kind = "lookup_or_generate" /\ c.phase = 2
           /\ c.res = "Ok" /\ c.out = c.upgraded /\ c.upgraded # NoBlob
           /\ CountEv(c.log, "getKeyCharacteristics") = 2

C8_ForcedReencryptPersisted ==
    \A t \in Threads :
        LET c == th[t]
        IN (/\ Returned(c) /\ c.res = "Ok" /\ c.kind = "create_operation"
            /\ c.guard0 /\ c.kb.force /\ c.upgraded = NoBlob)
           => /\ db[c.key].present
              /\ db[c.key].blob = c.blob
              /\ db[c.key].wrap = "fresh"

\* C9: in one run store_upgraded_keyblob is executed at most once and the
\* new-blob handler at most once; without a key id guard nothing is stored;
\* after an upgrade the guard is gone.
C9_PersistAtMostOnce ==
    \A t \in Threads :
        LET c == th[t]
        IN /\ CountEv(c.log, "store") <= 1
           /\ CountEv(c.log, "handler") <= 1
           /\ ~c.guard0 => CountEv(c.log, "store") = 0
           /\ (/\ c.kind = "create_operation" /\ c.phase = 2) => ~c.guard

C9_Witness ==
    \E t \in Threads :
        LET c == th[t]
        IN /\ Returned(c) /\ c.res = "Ok" /\ c.kind = "create_operation"
           /\ c.upgraded # NoBlob /\ c.kb.force /\ c.guard0
           /\ CountEv(c.log, "store") = 1

\* The call histories are never cut short in the sequential specification.
LogNeverFull == \A t \in Threads : Len(th[t].log) < MaxLog

\* What the two maps hold for a tier, read off the maps themselves.
CacheEntry(dm, sl) ==
    IF dm.byLevel[sl] = NoUuid THEN NoDev ELSE dm.byUuid[dm.byLevel[sl]]

\* A tier is cached: its entry holds a device handle.
Cached(dm, sl) == CacheEntry(dm, sl).dev # 0

\* Successful results agree with the cache, a call that found its tier cached
\* did no discovery or connection, and discovery runs only for a tier that is
\* not cached.
RegistryAgrees ==
    \A t \in Threads :
        /\ (rt[t].pc = "done" /\ rt[t].res = "Ok") =>
               /\ rt[t].out.dev # 0
               /\ rt[t].out = CacheEntry(devices, rt[t].tier)
               /\ rt[t].out.uuid = UuidOf(rt[t].tier)
        /\ rt[t].hit => ~rt[t].io
        /\ rt[t].pc \in {"connect", "hwinfo"} => ~Cached(devices, rt[t].tier)

\* A cached entry is neither removed nor replaced by any step.
CacheStable ==
    \A sl \in RegTiers :
        Cached(devices, sl) =>
            CacheEntry(devices', sl) = CacheEntry(devices, sl)

\* C10: once get_keymint_device(tier) has returned successfully, every later
\* call for the tier returns the same handle, hardware info and UUID without
\* discovery or connection, and a cached entry is never removed or replaced.
C10_CachedDeviceIsStable == []RegistryAgrees /\ [][CacheStable]_vars

\* A call answered from the cache while the other thread has resolved, or is
\* resolving, a different tier.
C10_Witness ==
    \E t \in Threads, u \in Threads :
        /\ t # u
        /\ rt[t].pc = "done" /\ rt[t].hit /\ rt[t].res = "Ok"
        /\ rt[u].tier \notin {"none", rt[t].tier}
        /\ rt[u].io
        /\ conn >= 2

\* The thread is inside a call to an engine or to the service manager:
\* discovery, connection or getHardwareInfo.
InRegistryIO(t) == rt[t].pc \in {"connect", "hwinfo"}

\* C11: no thread holds the registry lock while a discovery, connection or
\* getHardwareInfo call is in progress: the lock covers the cache lookup and
\* the cache insert only.
C11_LockNotHeldAcrossIO ==
    \A t \in Threads : InRegistryIO(t) => lock # t

\* C12: a resolve of a tier that is already cached never waits on I/O: while
\* it waits for the registry lock, the holder is not inside discovery,
\* connection or getHardwareInfo for another tier.
C12_CachedResolveNeverWaitsOnIO ==
    \A t \in Threads :
        (rt[t].pc = "wait" /\ Cached(devices, rt[t].tier)) =>
            (lock = 0 \/ ~InRegistryIO(lock))

\* The AIDL interface version of the native engine declared for a tier; 0
\* when there is none.
NativeVersion(sl) == IF sl \in Tiers THEN plat[sl].native ELSE 0

\* C13: the adapter is a function of the normalized version only: a native
\* engine with normalized version >= 200 that could be connected is resolved
\* and used as-is, an engine with version 100 or a legacy engine is wrapped
\* in the emulation adapter.
C13_AdapterByVersion ==
    \A t \in Threads :
        LET c == rt[t]
        IN (c.io /\ c.tier \in Tiers) =>
             /\ (NativeVersion(c.tier) >= 2 /\ c.svc.err # "CONNECT_FAILED") =>
                    (c.svc.err = "none" /\ ~c.svc.wrapped)
             /\ (NativeVersion(c.tier) <= 1 /\ c.svc.err = "none") =>
                    c.svc.wrapped

\* A call that resolved its tier by discovery and connection, and succeeded.
Resolved(c) == c.pc = "done" /\ c.res = "Ok" /\ ~c.hit /\ c.tier \in Tiers

\* C14 as stated: without a native engine the legacy bridge is used, the
\* handle carries the emulation adapter and the hardware info's version is
\* 100.
C14_LegacyVersionIs100 ==
    \A t \in Threads :
        LET c == rt[t]
        IN (Resolved(c) /\ NativeVersion(c.tier) = 0) =>
              (c.svc.bridge /\ c.out.wrapped /\ c.out.ver = 100)

\* C14 amended: without a native engine the legacy bridge is used and the
\* handle carries the emulation adapter; the hardware info keeps the version
\* the legacy wrapper reported (10 * major + minor, below 100).
C14_LegacyKeepsReportedVersion ==
    \A t \in Threads :
        LET c == rt[t]
        IN /\ (c.io /\ c.tier \in Tiers /\ NativeVersion(c.tier) = 0) =>
                 c.svc.bridge
           /\ (Resolved(c) /\ NativeVersion(c.tier) = 0) =>
                 /\ c.out.wrapped
                 /\ c.out.ver = c.rep
                 /\ c.out.ver < 100

C14_Witness ==
    \E t \in Threads :
        LET c == rt[t]
        IN /\ Resolved(c) /\ NativeVersion(c.tier) = 0
           /\ c.svc.bridge /\ c.out.wrapped /\ c.out.ver = 41

\* C15: with a native engine registered for the tier the legacy bridge is
\* never brought up or called; a native engine of interface version 2 is
\* returned unwrapped with version 200 and the tier's UUID.
C15_NativeBypassesLegacyBridge ==
    \A t \in Threads :
        LET c == rt[t]
        IN /\ (c.io /\ NativeVersion(c.tier) # 0) => ~c.svc.bridge
           /\ (c.pc = "done" /\ c.res = "Ok" /\ NativeVersion(c.tier) = 2) =>
                 /\ c.out.ver = 200
                 /\ c.out.uuid = UuidOf(c.tier)
                 /\ ~c.out.wrapped

C15_Witness ==
    \E t \in Threads :
        LET c == rt[t]
        IN /\ Resolved(c) /\ NativeVersion(c.tier) = 2
           /\ c.out.ver = 200 /\ c.rep = 41 /\ ~c.svc.bridge

\* C16: for a native engine the version in the returned hardware info is the
\* interface version times 100 whatever getHardwareInfo reported, so every
\* cached native engine's version is greater than every cached legacy
\* engine's.
C16_NativeVersionNormalized ==
    /\ \A t \in Threads :
          LET c == rt[t]
          IN (c.pc = "done" /\ c.res = "Ok" /\ NativeVersion(c.tier) # 0) =>
                c.out.ver = NativeVersion(c.tier) * 100
    /\ \A a \in Tiers, b \in Tiers :
          (/\ Cached(devices, a) /\ Cached(devices, b)
           /\ NativeVersion(a) # 0 /\ NativeVersion(b) = 0) =>
              CacheEntry(devices, a).ver > CacheEntry(devices, b).ver

C16_Witness ==
    \E t \in Threads, b \in Tiers :
        LET c == rt[t]
        IN /\ Resolved(c) /\ NativeVersion(c.tier) = 1
           /\ c.rep = 41 /\ c.out.ver = 100
           /\ Cached(devices, b) /\ NativeVersion(b) = 0
           /\ CacheEntry(devices, b).ver = 41

AbsentTier(sl) ==
    sl \notin Tiers \/ plat[sl] = [native |-> 0, legacy |-> FALSE]

\* C18: an absent tier yields HARDWARE_TYPE_UNAVAILABLE; get_or_none returns
\* None exactly when the resolve failed with HARDWARE_TYPE_UNAVAILABLE and
\* returns every other failure, such as a connection failure, as the error it
\* was.
C18_AbsentTierIsNone ==
    \A t \in Threads :
        LET c == rt[t]
        IN c.pc = "done" =>
             /\ (AbsentTier(c.tier) /\ c.res # "CONNECT_FAILED") =>
                    c.res = "HARDWARE_TYPE_UNAVAILABLE"
             /\ c.api = "get_or_none" =>
                    /\ c.ret = "None" <=> c.res = "HARDWARE_TYPE_UNAVAILABLE"
                    /\ c.ret = "Some" <=> c.res = "Ok"
                    /\ c.res \notin {"Ok", "HARDWARE_TYPE_UNAVAILABLE"} =>
                          c.ret = c.res
             /\ c.api # "get_or_none" => c.ret # "None"

C18_Witness ==
    \E t \in Threads :
        LET c == rt[t]
        IN /\ c.pc = "done" /\ c.api = "get_or_none" /\ c.tier = "SB"
           /\ AbsentTier("SB") /\ c.svc.bridge /\ c.ret = "None"
           /\ Cached(devices, "TEE")

\* C19: begin and prune alternate strictly, starting with begin; a request
\* whose begin finally succeeded after k TOO_MANY_OPERATIONS answers made
\* exactly k prune calls and k + 1 begin calls and returns that success.
C19_BeginPruneAlternate ==
    \A t \in Threads :
        LET c == th[t]
            lg == c.log
        IN c.kind = "create_operation" =>
             /\ \A i \in 2..Len(lg) :
                   /\ lg[i].e = "begin" => lg[i - 1].e \in {"f", "prune"}
                   /\ lg[i].e = "prune" => lg[i - 1].e = "begin"
             /\ c.pc = "prune" =>
                   CountEv(lg, "begin") = CountEv(lg, "prune") + 1
             /\ (c.pc = "post" \/ (Returned(c) /\ c.res = "Ok")) =>
                   /\ c.first = "Ok"
                   /\ lg[Len(lg)].e = "begin"
                   /\ CountEv(lg, "begin") = CountEv(lg, "prune") + 1

\* Three TOO_MANY_OPERATIONS answers, three prune calls, success on the
\* fourth begin.
C19_Witness ==
    \E t \in Threads :
        LET c == th[t]
        IN /\ Returned(c) /\ c.res = "Ok" /\ c.kind = "create_operation"
           /\ CountEv(c.log, "prune") = 3
           /\ CountEv(c.log, "begin") = 4

\* The begin closure met INVALID_KEY_BLOB: the answer was returned, or the
\* audit branch was entered.
MetInvalidBlob(c) ==
    \/ c.first = "INVALID_KEY_BLOB"
    \/ c.second = "INVALID_KEY_BLOB"
    \/ \E i \in 1..Len(c.log) : c.log[i].e \in {"audit", "audit_failed"}

\* C20: when begin returns INVALID_KEY_BLOB, create_operation makes no
\* further begin call and no eviction and returns INVALID_KEY_BLOB, whether
\* the audit lookup of the key descriptor succeeded or failed.
C20_InvalidBlobReturnedAtOnce ==
    \A t \in Threads :
        LET c == th[t]
            lg == c.log
            n == Len(lg)
        IN (c.kind = "create_operation" /\ MetInvalidBlob(c)) =>
             /\ Returned(c)
             /\ c.res = "INVALID_KEY_BLOB"
             /\ c.out = NoBlob
             /\ IF c.guard0
                THEN /\ lg[n].e \in {"audit", "audit_failed"}
                     /\ lg[n - 1].e = "begin"
                     /\ \A i \in 1..(n - 1) :
                           lg[i].e \notin {"audit", "audit_failed"}
                ELSE lg[n].e = "begin"

\* INVALID_KEY_BLOB on the retry after an upgrade, the audit lookup failed.
C20_Witness ==
    \E t \in Threads :
        LET c == th[t]
        IN /\ Returned(c) /\ c.kind = "create_operation" /\ c.guard0
           /\ c.second = "INVALID_KEY_BLOB" /\ c.res = "INVALID_KEY_BLOB"
           /\ c.log[Len(c.log)].e = "audit_failed"

\* C21: every INVALID_KEY_BLOB answer of begin is followed by the audit
\* branch (the audit signal, or the failed lookup of the descriptor) before
\* the error is returned, for stored keys and caller-supplied blobs alike.
C21_InvalidBlobAlwaysAudited ==
    \A t \in Threads :
        LET c == th[t]
        IN (/\ c.kind = "create_operation" /\ Returned(c)
            /\ (c.first = "INVALID_KEY_BLOB" \/ c.second = "INVALID_KEY_BLOB"))
           => \E i \in 1..Len(c.log) :
                 c.log[i].e \in {"audit", "audit_failed"}

\* The engine answered begin with an error that is neither
\* TOO_MANY_OPERATIONS nor INVALID_KEY_BLOB nor KEY_REQUIRES_UPGRADE.
MetOtherError(c) ==
    c.kind = "create_operation" /\ (c.first = "ERR" \/ c.second = "ERR")

\* C22 as stated: such an error is returned after exactly one begin call,
\* with no eviction, no audit signal and no operation registered.
C22_OtherErrorAfterOneBegin ==
    \A t \in Threads :
        LET c == th[t]
        IN MetOtherError(c) =>
             /\ Returned(c) /\ c.res = "ERR"
             /\ CountEv(c.log, "begin") = 1
             /\ CountEv(c.log, "prune") = 0
             /\ CountEv(c.log, "audit") + CountEv(c.log, "audit_failed") = 0
             /\ Len(opTable) <= c.n0

\* C22 amended: such an error is returned at once: the begin call that got
\* it is the last call of the request, no eviction, audit signal or
\* registration follows it, and no audit signal was emitted at all; begin
\* calls and evictions made before it stand, and when it answers the first
\* begin of the request there is exactly one begin call and no eviction.
C22_OtherErrorReturnedAtOnce ==
    \A t \in Threads :
        LET c == th[t]
            lg == c.log
        IN MetOtherError(c) =>
             /\ Returned(c) /\ c.res = "ERR" /\ c.out = NoBlob
             /\ lg[Len(lg)].e = "begin"
             /\ CountEv(lg, "audit") + CountEv(lg, "audit_failed") = 0
             /\ Len(opTable) <= c.n0 - CountEv(lg, "prune")
             /\ (c.phase = 1 /\ lg[Len(lg) - 1].e = "f") =>
                   (CountEv(lg, "begin") = 1 /\ CountEv(lg, "prune") = 0)

\* The error answered the begin that followed an eviction.
C22_Witness ==
    \E t \in Threads :
        LET c == th[t]
        IN /\ MetOtherError(c) /\ Returned(c) /\ c.res = "ERR"
           /\ CountEv(c.log, "prune") = 1 /\ CountEv(c.log, "begin") = 2
           /\ c.guard0

\* A call of lookup_or_generate_key whose first lookup found an entry made by
\* this device.
FoundOwn(c) ==
    /\ c.kind = "lookup_or_generate"
    /\ c.lookup = "Ok"
    /\ c.metaUuid = KmUuid

\* C23: a lookup_or_generate_key call that finds a stored entry made by this
\* device (UUID match) whose characteristics the validate callback accepts
\* returns Ok with that blob, unchanged or in the upgraded form the engine
\* produced for it, and calls neither generateKey nor store_new_key.
C23_ValidEntryReturnedAsIs ==
    \A t \in Threads :
        LET c == th[t]
        IN (FoundOwn(c) /\ c.valid = "yes") =>
             /\ Returned(c) /\ c.res = "Ok"
             /\ c.out = (IF c.first = "KEY_REQUIRES_UPGRADE"
                         THEN [c.old EXCEPT !.ver = c.out.ver] ELSE c.old)
             /\ (c.first = "KEY_REQUIRES_UPGRADE" => c.out.ver > c.old.ver)
             /\ CountEv(c.log, "generateKey") = 0
             /\ CountEv(c.log, "store_new_key") = 0

C23_Witness ==
    \E t \in Threads :
        LET c == th[t]
        IN /\ FoundOwn(c) /\ c.valid = "yes" /\ Returned(c)
           /\ c.first = "KEY_REQUIRES_UPGRADE"
           /\ c.out # c.old
           /\ keygen.generated = 1

\* A call of lookup_or_generate_key that has to replace or create the key:
\* no entry, an entry of a different device or without device metadata, or
\* an entry the validate callback rejected.
MustRegenerate(c) ==
    /\ c.kind = "lookup_or_generate"
    /\ \/ c.lookup = "KEY_NOT_FOUND"
       \/ c.lookup = "Ok" /\ c.metaUuid # KmUuid
       \/ c.valid = "no"

\* C24: a call that finds the entry absent, made by a different device,
\* without device metadata or failing validation calls generateKey, stores
\* the new key under this device's UUID, reads the entry again and returns
\* the blob it read, never the blob found at first; such a call ends without
\* a new blob only with the error of the step that failed.  A call whose
\* first lookup fails with an error other than KEY_NOT_FOUND returns that
\* error and calls neither generateKey nor store_new_key.
C24_CorruptedIsRegenerated ==
    \A t \in Threads :
        LET c == th[t]
            lg == c.log
            n == Len(lg)
        IN /\ (MustRegenerate(c) /\ Returned(c)) =>
                /\ CountEv(lg, "generateKey") = 1
                /\ c.res = "Ok" =>
                     /\ n >= 3
                     /\ lg[n - 2].e = "generateKey"
                     /\ lg[n - 1].e = "store_new_key"
                     /\ lg[n] = Ev("second_lookup", c.out)
                     /\ lg[n - 1].b.gen > c.old.gen
                     /\ c.out.gen > c.old.gen
                     /\ c.out # c.old
                     /\ db[c.key].present /\ db[c.key].uuid = KmUuid
                /\ c.res # "Ok" => c.out = NoBlob /\ c.res \in {"ERR", "DB_ERR"}
           /\ (c.kind = "lookup_or_generate" /\ c.lookup = "DB_ERR") =>
                /\ Returned(c) /\ c.res = "DB_ERR" /\ c.out = NoBlob
                /\ c.log = <<>>

C24_Witness ==
    \E t \in Threads :
        LET c == th[t]
        IN /\ MustRegenerate(c) /\ Returned(c) /\ c.res = "Ok"
           /\ c.lookup = "Ok" /\ c.metaUuid = NoUuid
           /\ c.old.ver = c.out.ver

DuplicateGeneration ==
    /\ ~keygen.discipline
    /\ keygen.stored = 2
    /\ \A t \in Threads : th[t].pc \in {"reread", "done"} /\ th[t].lookup = "KEY_NOT_FOUND"

\* ------------------------------------------------- entry point histories
TraceHas(e, steps) == \E i \in 1..Len(e.trace) : e.trace[i].s \in steps
Denied(e, i) == e.trace[i].s \in PermSteps /\ e.trace[i].o = "PERMISSION_DENIED"
Granted(e, step) == \E i \in 1..Len(e.trace) : e.trace[i] = [s |-> step, o |-> "ok"]
HasWellFormedPurpose(params) ==
    \E i \in 1..Len(params) : params[i] = [tag |-> "PURPOSE", val |-> "KeyPurpose"]

\* `short` is `long` without its PURPOSE parameters: an order-preserving
\* embedding of short into long hits every parameter of long but the
\* PURPOSE ones.
SameButPurpose(short, long) ==
    \E f \in [1..Len(short) -> 1..Len(long)] :
        /\ \A i, j \in 1..Len(short) : i < j => f[i] < f[j]
        /\ \A i \in 1..Len(short) : long[f[i]] = short[i]
        /\ \A k \in 1..Len(long) :
              (\E i \in 1..Len(short) : f[i] = k) <=> long[k].tag # "PURPOSE"

\* The list begin gets holds no PURPOSE tag and is the caller's list without
\* its PURPOSE parameters, the rest unchanged and in order.
BeginParamsStripped ==
    (ep.api = "create_operation" /\ TraceHas(ep, {"engine:begin"})) =>
        /\ \A i \in 1..Len(ep.passed) : ep.passed[i].tag # "PURPOSE"
        /\ SameButPurpose(ep.passed, ep.params)

\* C26 (as stated): the parameter list passed to begin holds no PURPOSE tag
\* and is otherwise the caller's list, and a create_operation request
\* without a well-formed PURPOSE parameter ends with INVALID_ARGUMENT and
\* without a begin call.
C26_NoPurposeIsInvalidArgument ==
    /\ BeginParamsStripped
    /\ (ep.api = "create_operation" /\ ~HasWellFormedPurpose(ep.params)) =>
          /\ ~TraceHas(ep, {"engine:begin"})
          /\ ep.pc = "done" => ep.res = "INVALID_ARGUMENT"

\* C26: the parameter list passed to begin holds no PURPOSE tag and is
\* otherwise the caller's list, unchanged and in order; a create_operation
\* request without a well-formed PURPOSE parameter fails without a begin
\* call: with INVALID_ARGUMENT once the key has been resolved, with the
\* error of the key resolution (permission denied, key not found, no blob)
\* when that fails first.
C26_NoPurposeNeverBegins ==
    /\ BeginParamsStripped
    /\ (ep.api = "create_operation" /\ ~HasWellFormedPurpose(ep.params)) =>
          /\ ~TraceHas(ep, {"engine:begin"})
          /\ ep.pc = "done" =>
                /\ ep.res \in {"INVALID_ARGUMENT", "PERMISSION_DENIED",
                               "KEY_NOT_FOUND", "SYSTEM_ERROR"}
                /\ ep.res = "INVALID_ARGUMENT" <=> TraceHas(ep, {"purpose"})
                /\ ep.trace[Len(ep.trace)].o = ep.res

C26_Witness ==
    /\ ep.api = "create_operation"
    /\ ep.pc = "done"
    /\ TraceHas(ep, {"engine:begin"})
    /\ Len(ep.params) = 3
    /\ ep.params[2].tag = "PURPOSE"
    /\ ep.params[3].tag = "PURPOSE"
    /\ Len(ep.passed) = 1

\* C28: in every entry point, when the policy engine denies a capability the
\* call checks (rebind, delete, convert, use, forced-operation), the denial
\* is the last step of the call and its result, no capability was checked
\* twice, and the call has made no engine call and no store_new_key call.
C28_DenialEndsTheCall ==
    \A i \in 1..Len(ep.trace) :
        Denied(ep, i) =>
            /\ i = Len(ep.trace)
            /\ ep.pc = "done"
            /\ ep.res = "PERMISSION_DENIED"
            /\ ~TraceHas(ep, EngineSteps \cup {"store_new_key"})
            /\ \A j, k \in 1..Len(ep.trace) :
                  (ep.trace[j].s = ep.trace[k].s /\ ep.trace[j].s \in PermSteps)
                      => j = k

C28_Witness ==
    /\ ep.api = "create_operation"
    /\ ep.forced
    /\ ep.domain = "APP"
    /\ Granted(ep, "perm:Use")
    /\ Denied(ep, Len(ep.trace))
    /\ ep.trace[Len(ep.trace)].s = "perm:ReqForcedOp"

CreationApis == {"generate_key", "import_key", "import_wrapped_key"}

\* A descriptor without alias outside Domain::BLOB is turned down with
\* INVALID_ARGUMENT by the first step of the call.
NoAliasRejectedFirst ==
    (ep.api \in CreationApis /\ ep.domain # "BLOB" /\ ~ep.alias
     /\ ep.pc \in {"run", "done"}) =>
        /\ Len(ep.trace) <= 1
        /\ ~TraceHas(ep, PermSteps \cup EngineSteps \cup {"store_new_key"})
        /\ ep.pc = "done" => ep.res = "INVALID_ARGUMENT"

\* C29 (as stated): generate_key, import_key and import_wrapped_key turn a
\* descriptor without alias outside Domain::BLOB down with INVALID_ARGUMENT
\* before any permission check, engine call or store write, and each of them
\* lets a Domain::BLOB descriptor without alias pass on to the rebind check.
C29_RawBlobNeedsNoAlias ==
    /\ NoAliasRejectedFirst
    /\ (ep.api \in CreationApis /\ ep.domain = "BLOB" /\ ~ep.alias
        /\ ep.pc = "done") => TraceHas(ep, {"perm:Rebind"})

\* C29: generate_key, import_key and import_wrapped_key turn a descriptor
\* without alias outside Domain::BLOB down with INVALID_ARGUMENT before any
\* permission check, engine call or store write; generate_key and import_key
\* let a Domain::BLOB descriptor without alias pass on to the rebind check,
\* import_wrapped_key turns every Domain::BLOB descriptor down with
\* INVALID_ARGUMENT in its first step.
C29_AliasRequiredOutsideRawBlob ==
    /\ NoAliasRejectedFirst
    /\ (ep.api \in {"generate_key", "import_key"} /\ ep.domain = "BLOB"
        /\ ~ep.alias /\ ep.pc = "done") => TraceHas(ep, {"perm:Rebind"})
    /\ (ep.api = "import_wrapped_key" /\ ep.domain = "BLOB" /\ ep.pc = "done") =>
          /\ ep.res = "INVALID_ARGUMENT"
          /\ Len(ep.trace) = 1

C29_Witness ==
    /\ ep.api = "import_key"
    /\ ep.domain = "BLOB"
    /\ ~ep.alias
    /\ ep.pc = "done"
    /\ ep.res = "Ok"
    /\ TraceHas(ep, {"store_new_key"})

RawBlobApis == {"delete_key", "convert_storage_key_to_ephemeral"}
OwnCapability(api) ==
    IF api = "delete_key" THEN "perm:Delete"
    ELSE "perm:ConvertStorageKeyToEphemeral"

\* C30: delete_key and convert_storage_key_to_ephemeral turn a descriptor of
\* another domain than Domain::BLOB, or without blob, down with
\* INVALID_ARGUMENT before any permission check; the only capability each
\* checks is its own, and each calls the engine only after that check was
\* granted.
C30_RawBlobOnlyEntryPoints ==
    (ep.api \in RawBlobApis) =>
        /\ (ep.domain # "BLOB" \/ ~ep.blob) =>
              /\ ~TraceHas(ep, PermSteps \cup EngineSteps)
              /\ ep.pc = "done" => ep.res = "INVALID_ARGUMENT"
        /\ \A i \in 1..Len(ep.trace) :
              /\ ep.trace[i].s \in PermSteps => ep.trace[i].s = OwnCapability(ep.api)
              /\ ep.trace[i].s \in EngineSteps =>
                    \E j \in 1..(i - 1) :
                        ep.trace[j] = [s |-> OwnCapability(ep.api), o |-> "ok"]

C30_Witness ==
    /\ ep.api = "delete_key"
    /\ ep.domain = "BLOB" /\ ep.blob
    /\ ep.pc = "done" /\ ep.res = "Ok"
    /\ Granted(ep, "perm:Delete")
    /\ TraceHas(ep, {"engine:deleteKey"})

\* C27: a successful create_operation hands an upgraded blob to the caller
\* only for a Domain::BLOB descriptor, and then it is the blob the engine's
\* upgrade produced; for every other domain the response's upgradedBlob is
\* empty, also when the key was upgraded during the call.
C27_UpgradedBlobOnlyForRawBlob ==
    \A t \in Threads :
        LET c == th[t]
        IN (c.kind = "create_operation" /\ Returned(c) /\ c.res = "Ok") =>
              /\ c.domain # "BLOB" => c.out = NoBlob
              /\ c.out # NoBlob => c.domain = "BLOB" /\ c.out = c.upgraded
              /\ (c.domain = "BLOB" /\ c.upgraded # NoBlob) => c.out = c.upgraded

C27_Witness ==
    \E t \in Threads :
        LET c == th[t]
        IN /\ c.kind = "create_operation" /\ Returned(c) /\ c.res = "Ok"
           /\ c.domain = "APP"
           /\ HasEv(c.log, Ev("upgradeKey", c.blob))
           /\ c.upgraded # NoBlob
           /\ c.out = NoBlob

StepCount(e, step) == Cardinality({i \in 1..Len(e.trace) : e.trace[i].s = step})

\* C31: convert_storage_key_to_ephemeral makes at most one first and one
\* second convert call and at most one upgradeKey call, in that order; the
\* upgrade and the first convert get the descriptor's blob, the second
\* convert the upgraded blob; a successful response carries the upgraded
\* blob exactly when upgradeKey was called; a failed upgradeKey or any
\* error of the second convert, KEY_REQUIRES_UPGRADE included, ends the
\* call with that error.
C31_ConvertRetriesOnce ==
    (ep.api = "convert_storage_key_to_ephemeral") =>
        /\ StepCount(ep, "engine:convertStorageKeyToEphemeral") <= 1
        /\ StepCount(ep, "engine:upgradeKey") <= 1
        /\ StepCount(ep, "engine:convertStorageKeyToEphemeral(2)") <= 1
        /\ Len(ep.blobs) <= 3
        /\ \A i \in 1..Len(ep.blobs) :
              ep.blobs[i] = IF i = 3 THEN "upgraded_blob" ELSE "key_blob"
        /\ TraceHas(ep, {"engine:convertStorageKeyToEphemeral(2)"}) =>
              /\ Len(ep.blobs) = 3
              /\ Granted(ep, "engine:upgradeKey")
        /\ TraceHas(ep, {"engine:upgradeKey"}) =>
              \E i \in 1..Len(ep.trace) :
                  ep.trace[i] = [s |-> "engine:convertStorageKeyToEphemeral",
                                 o |-> "KEY_REQUIRES_UPGRADE"]
        /\ (ep.pc = "done" /\ ep.res = "Ok") =>
              (ep.upgraded = "upgraded_blob" <=> TraceHas(ep, {"engine:upgradeKey"}))
        /\ ep.res # "Ok" => ep.upgraded = "none"
        /\ \A i \in 1..Len(ep.trace) :
              (/\ ep.trace[i].s \in {"engine:upgradeKey",
                                     "engine:convertStorageKeyToEphemeral(2)"}
               /\ ep.trace[i].o # "ok") =>
                  /\ i = Len(ep.trace)
                  /\ ep.pc = "done"
                  /\ ep.res = ep.trace[i].o

C31_Witness ==
    /\ ep.api = "convert_storage_key_to_ephemeral"
    /\ ep.pc = "done"
    /\ ep.res = "KEY_REQUIRES_UPGRADE"
    /\ Granted(ep, "engine:upgradeKey")
    /\ ep.blobs = <<"key_blob", "key_blob", "upgraded_blob">>

\* C32: the store changes during a key creation call only in the
\* store_new_key that ends it successfully, and only at the call's key, which
\* then holds what the super-key wrapping step made of the engine's blob,
\* with the wrapping the step reported; a successful call for a Domain::BLOB
\* key leaves the store as it was and returns the engine's blob in a
\* Domain::BLOB descriptor.
C32_StoredBlobIsWrapped ==
    [][LET e == ep'
       IN /\ db' # db =>
                /\ e.pc = "done" /\ e.res = "Ok"
                /\ e.api \in CreationApis
                /\ e.key.domain # "BLOB"
                /\ e.trace[Len(e.trace)] = [s |-> "store_new_key", o |-> "ok"]
                /\ e.wrapped.blob = e.created
                /\ \A k \in DOMAIN db :
                      db'[k] # db[k] =>
                          /\ k = e.key
                          /\ db'[k].present
                          /\ db'[k].blob = e.wrapped.blob
                          /\ db'[k].wrap = e.wrapped.wrap
          /\ (ep.pc = "run" /\ e.pc = "done" /\ e.res = "Ok"
                /\ e.api \in CreationApis) =>
                IF e.key.domain = "BLOB"
                THEN /\ db' = db
                     /\ e.desc = [domain |-> "BLOB", blob |-> e.created]
                ELSE /\ db'[e.key].present
                     /\ db'[e.key].blob = e.created
                     /\ db'[e.key].wrap = e.wrapped.wrap
                     /\ e.desc = [domain |-> "KEY_ID", blob |-> NoBlob]]_vars

C32_Witness ==
    /\ ep.api = "import_key"
    /\ ep.pc = "done" /\ ep.res = "Ok"
    /\ ep.key.domain = "SELINUX"
    /\ ep.wrapped = [blob |-> ep.created, wrap |-> "fresh"]
    /\ db[ep.key].present
    /\ db[ep.key].blob = ep.created
    /\ db[ep.key].wrap = "fresh"

\* ------------------------------------------------ key creation parameters
CreationEngineSteps ==
    {"engine:generateKey", "engine:importKey", "engine:importWrappedKey"}
TagCount(params, tag) ==
    Cardinality({i \in 1..Len(params) : params[i].tag = tag})
HasParam(params, tag, val) ==
    \E i \in 1..Len(params) : params[i] = [tag |-> tag, val |-> val]
IsPrefix(short, long) ==
    Len(short) <= Len(long) /\ \A i \in 1..Len(short) : short[i] = long[i]
Asymmetric(params) == FindAlgorithm(params) \in {"RSA", "EC"}

\* What the engine is given carries the service's timestamp and no other,
\* and for RSA and EC keys both validity bounds, the defaults exactly where
\* the caller gave none.
Augmented(params, passed) ==
    /\ IsPrefix(params, passed)
    /\ HasParam(passed, "CREATION_DATETIME", "now")
    /\ TagCount(passed, "CREATION_DATETIME") = 1
    /\ Asymmetric(params) =>
          /\ HasTag(passed, "CERTIFICATE_NOT_BEFORE")
          /\ HasTag(passed, "CERTIFICATE_NOT_AFTER")
    /\ HasParam(passed, "CERTIFICATE_NOT_BEFORE", "0")
          <=> (Asymmetric(params) /\ ~HasTag(params, "CERTIFICATE_NOT_BEFORE"))
    /\ HasParam(passed, "CERTIFICATE_NOT_AFTER", "UNDEFINED_NOT_AFTER")
          <=> (Asymmetric(params) /\ ~HasTag(params, "CERTIFICATE_NOT_AFTER"))

\* The same without the timestamp.
AugmentedNoTimestamp(params, passed) ==
    /\ IsPrefix(params, passed)
    /\ ~HasTag(passed, "CREATION_DATETIME")
    /\ Asymmetric(params) =>
          /\ HasTag(passed, "CERTIFICATE_NOT_BEFORE")
          /\ HasTag(passed, "CERTIFICATE_NOT_AFTER")
    /\ HasParam(passed, "CERTIFICATE_NOT_BEFORE", "0")
          <=> (Asymmetric(params) /\ ~HasTag(params, "CERTIFICATE_NOT_BEFORE"))
    /\ HasParam(passed, "CERTIFICATE_NOT_AFTER", "UNDEFINED_NOT_AFTER")
          <=> (Asymmetric(params) /\ ~HasTag(params, "CERTIFICATE_NOT_AFTER"))

\* A caller-supplied CREATION_DATETIME ends the call with INVALID_ARGUMENT
\* in add_required_parameters, before the engine is called.
DatetimeRejected(e) ==
    (HasTag(e.params, "CREATION_DATETIME")
        /\ TraceHas(e, {"add_required_parameters"})) =>
        /\ e.pc = "done" /\ e.res = "INVALID_ARGUMENT"
        /\ e.trace[Len(e.trace)] =
              [s |-> "add_required_parameters", o |-> "INVALID_ARGUMENT"]
        /\ ~TraceHas(e, CreationEngineSteps)

\* C33, as claimed: each of generate_key, import_key and import_wrapped_key
\* hands the engine the caller's parameters with the service's creation
\* timestamp and, for RSA and EC keys, both validity bounds, the defaults
\* only where the caller gave none, and rejects a caller-supplied
\* CREATION_DATETIME with INVALID_ARGUMENT.
C33_AllThreeAugment ==
    (ep.api \in CreationApis /\ ep.uid # "none") =>
        /\ TraceHas(ep, CreationEngineSteps) => Augmented(ep.params, ep.passed)
        /\ HasTag(ep.params, "CREATION_DATETIME") => ~TraceHas(ep, CreationEngineSteps)

\* C33, amended: generate_key and import_key reject a caller-supplied
\* CREATION_DATETIME with INVALID_ARGUMENT before the engine is called and
\* hand the engine the caller's parameters followed by the service's
\* creation timestamp when the backend's version is 100 or more (no
\* timestamp below 100) and, for RSA and EC keys, by the validity defaults
\* the caller did not supply; import_wrapped_key hands the engine the
\* caller's parameters as they are.
C33_GenerateAndImportAugment ==
    (ep.api \in CreationApis /\ ep.uid # "none") =>
        IF ep.api = "import_wrapped_key"
        THEN /\ ~TraceHas(ep, {"add_required_parameters"})
             /\ TraceHas(ep, CreationEngineSteps) => ep.passed = ep.params
        ELSE /\ DatetimeRejected(ep)
             /\ TraceHas(ep, CreationEngineSteps) =>
                   /\ Granted(ep, "add_required_parameters")
                   /\ ~HasTag(ep.params, "CREATION_DATETIME")
                   /\ IF ep.hw >= 100 THEN Augmented(ep.params, ep.passed)
                      ELSE AugmentedNoTimestamp(ep.params, ep.passed)

C33_Witness ==
    /\ ep.api = "import_key"
    /\ ep.hw = 100
    /\ ep.params = <<[tag |-> "ALGORITHM", val |-> "EC"],
                     [tag |-> "CERTIFICATE_NOT_AFTER", val |-> "caller"]>>
    /\ Granted(ep, "engine:importKey")
    /\ ep.passed = ep.params \o <<[tag |-> "CREATION_DATETIME", val |-> "now"],
                                   [tag |-> "CERTIFICATE_NOT_BEFORE", val |-> "0"]>>

\* C38: a create_operation call that has returned success has added exactly
\* one entry to the operation table, and a call that has returned an error
\* has added none, whether begin answered without an operation reference
\* or the registered operation could not be turned into a binder.
C38_OneEntryOnSuccessOnly ==
    \A t \in Threads :
        LET c == th[t]
        IN (c.kind = "create_operation" /\ Returned(c)) =>
              c.added = IF c.res = "Ok" THEN 1 ELSE 0

\* C39: every key entry written by store_new_key of the security level or by
\* create_and_store_key of the raw device carries this engine's UUID in its
\* blob metadata and is recorded under the same UUID, so that a later
\* lookup_or_generate_key through this engine takes every entry it finds
\* for its own and never goes on to regenerate it as an unusable one.
C39_WrittenEntriesCarryEngineUuid ==
    /\ \A k \in DOMAIN db :
          db[k].present =>
             /\ db[k].uuid = KmUuid
             /\ db[k].row = KmUuid
             /\ RawBlobUsable(db[k])
    /\ \A t \in Threads :
          LET c == th[t]
          IN (c.kind = "lookup_or_generate" /\ c.lookup = "Ok") =>
                /\ c.metaUuid = KmUuid
                /\ c.log # <<>>
                /\ c.log[1].e = "f"

\* The raw device has found, and taken for its own, an entry that
\* create_and_store_key wrote in an earlier call; meanwhile store_new_key
\* has replaced it with a key made through the security level.
C39_Witness ==
    LET k == [domain |-> "SELINUX", nspace |-> "u1"]
    IN /\ th[1].kind = "lookup_or_generate" /\ th[1].lookup = "Ok"
       /\ th[1].old.key = "k1"
       /\ CountEv(th[1].log, "generateKey") = 0
       /\ ep.pc = "done" /\ ep.res = "Ok" /\ ep.desc.domain = "KEY_ID"
       /\ db[k].present /\ db[k].blob = ep.created
       /\ db[k].uuid = KmUuid /\ db[k].row = KmUuid

\* C40: for a Domain::APP descriptor generate_key, import_key and
\* import_wrapped_key make the rebind check on, and write the key under, the
\* descriptor whose namespace is the calling uid, whatever namespace the
\* caller wrote: an entry of an app namespace changes only in a call made
\* by the uid that names the namespace, after the rebind check on that
\* very entry.
C40_AppNamespaceIsCallerUid ==
    [][ /\ \A k \in DOMAIN db :
              (k.domain = "APP" /\ db'[k] # db[k]) =>
                 /\ k.nspace = ep.uid
                 /\ ep.checked = k
                 /\ Granted(ep, "perm:Rebind")
        /\ (ep'.domain = "APP" /\ ep'.checked # ep.checked) =>
              ep'.checked = [domain |-> "APP", nspace |-> ep'.uid]
        /\ (ep'.domain = "APP" /\ ep'.key # ep.key) =>
              ep'.key = [domain |-> "APP", nspace |-> ep'.uid] ]_vars

\* A caller that wrote another uid's namespace into its app-domain
\* descriptor has created the key in its own namespace; the other
\* namespace holds no key.
C40_Witness ==
    /\ ep.pc = "done" /\ ep.res = "Ok"
    /\ ep.api = "import_wrapped_key"
    /\ ep.domain = "APP"
    /\ ep.nspace # ep.uid
    /\ db[[domain |-> "APP", nspace |-> ep.uid]].present
    /\ ~db[[domain |-> "APP", nspace |-> ep.nspace]].present

\* C37: when several threads call get_keymint_device for the same tier that
\* is not cached yet, at most one of them completes a connection for the
\* tier: a call succeeds after connecting only if the tier was not cached
\* and no other thread is connecting to it, a call that finds the tier
\* cached makes no connection and leaves the cache alone, and all calls
\* that have succeeded for a tier hold the same device handle and UUID,
\* those of the cache.
C37_OneConnectionPerTier ==
    [][ \A t \in Threads :
          (rt'[t].pc = "done" /\ rt[t].pc # "done" /\ rt'[t].res = "Ok") =>
             LET sl == rt'[t].tier
             IN /\ rt'[t].out.dev # 0
                /\ rt'[t].out = CacheEntry(devices', sl)
                /\ rt'[t].out.uuid = UuidOf(sl)
                /\ ~rt'[t].hit =>
                      /\ ~Cached(devices, sl)
                      /\ \A u \in Threads \ {t} :
                            rt[u].tier = sl => rt[u].pc \notin {"lookup", "connect", "hwinfo"}
                /\ rt'[t].hit => devices' = devices /\ conn' = conn /\ ~rt'[t].io
                /\ \A u \in Threads \ {t} :
                      (rt'[u].pc = "done" /\ rt'[u].res = "Ok" /\ rt'[u].tier = sl) =>
                         /\ rt'[u].out.dev = rt'[t].out.dev
                         /\ rt'[u].out.uuid = rt'[t].out.uuid ]_vars

\* Two threads have asked for the same uncached tier: the first connected
\* while the second waited for the mutex, and the second was answered from
\* the cache with the first one's handle; one handle was obtained in all.
C37_Witness ==
    /\ rt[1].pc = "done" /\ rt[1].res = "Ok" /\ ~rt[1].hit /\ rt[1].io
    /\ rt[2].pc = "done" /\ rt[2].res = "Ok" /\ rt[2].hit
    /\ rt[1].tier = rt[2].tier
    /\ rt[1].out = rt[2].out
    /\ conn = 1

\* C35: get_keymint_dev_by_uuid only reads the cache: the call makes no
\* discovery or connection, obtains no engine handle and leaves both maps
\* and the mutex as they were; it returns the device and hardware info
\* cached under the UUID when there are any, and a system error otherwise.
C35_ByUuidOnlyReadsCache ==
    [][ \A t \in Threads :
          (rt'[t].api = "get_keymint_dev_by_uuid" /\ rt[t].pc = "idle"
             /\ rt'[t].pc # "idle") =>
             LET c == rt'[t]
                 cached == /\ c.uuid \in DOMAIN devices.byUuid
                           /\ devices.byUuid[c.uuid].dev # 0
             IN /\ c.pc = "done"
                /\ devices' = devices /\ conn' = conn /\ lock' = lock
                /\ ~c.io /\ c.tries = 0
                /\ IF cached
                   THEN /\ c.res = "Ok"
                        /\ c.out.dev = devices.byUuid[c.uuid].dev
                        /\ c.out.ver = devices.byUuid[c.uuid].ver
                        /\ c.out.wrapped = devices.byUuid[c.uuid].wrapped
                   ELSE c.res = "SYSTEM_ERROR" /\ c.out = NoDev ]_vars

\* The secure element's engine, resolved by the other thread, has been
\* returned for its UUID while the trusted environment's was not cached.
C35_Witness ==
    /\ rt[2].api = "get_keymint_dev_by_uuid" /\ rt[2].pc = "done"
    /\ rt[2].res = "Ok" /\ rt[2].uuid = UuidOf("SB")
    /\ rt[2].out.dev = devices.byUuid[UuidOf("SB")].dev
    /\ rt[2].out.dev # 0
    /\ devices.byLevel["TEE"] = NoUuid
    /\ rt[1].pc = "connect" /\ rt[1].tier = "TEE"

\* A thread has been handed its connection by create_thread_local_db.
HasDb(t) == gl.tl[t].pc = "ready"

\* Every thread works on the connection it opened itself, and no two
\* threads hold the same connection.
OwnConnections ==
    \A t \in Threads :
        /\ gl.tl[t].used # 0 => HasDb(t) /\ gl.tl[t].used = gl.tl[t].db
        /\ gl.tl[t].db # 0 =>
              /\ gl.tl[t].db \in 1..gl.opened
              /\ \A u \in Threads \ {t} : gl.tl[u].db # gl.tl[t].db

\* cleanup_leftovers is run at most once, and has completed before any
\* thread is handed its connection.
CleanedOnce ==
    /\ gl.cleanups <= 1
    /\ (gl.cleanups = 1) = (gl.dbInit \in {"done", "poisoned"})
    /\ \A t \in Threads : HasDb(t) => gl.cleanups = 1 /\ gl.dbInit = "done"
    /\ Cardinality({t \in Threads : gl.tl[t].pc = "cleaning"}) <= 1
    /\ (gl.dbInit = "running") = (\E t \in Threads : gl.tl[t].pc = "cleaning")

BootFlagSound ==
    /\ gl.boot => gl.seen /\ gl.prop = "1"
    /\ gl.seen => gl.prop = "1"
    /\ gl.wpc = "watch" => ~gl.boot /\ ~gl.seen
    /\ gl.boot = (gl.wpc \in {"notify", "end"})
    /\ gl.gc => gl.boot
    /\ gl.gc = (gl.wpc = "end")

\* A step never resets the flag, and a watch that fails leaves the watcher
\* in its loop with the flag as it was.
BootFlagSteps ==
    /\ gl.boot => gl'.boot
    /\ (gl.wpc = "watch" /\ gl'.wpc = "watch") => gl'.boot = gl.boot /\ ~gl'.boot
    /\ (~gl.failed /\ gl'.failed) => gl'.wpc = "watch" /\ ~gl'.boot

\* C36: boot_completed() returns false until await_boot_completed has
\* observed sys.boot_completed=1 and true forever after; a failed property
\* watch is retried and does not set the flag; the garbage collector is
\* notified only after the flag has been set.
C36_BootFlagMonotonic == []BootFlagSound /\ [][BootFlagSteps]_vars

\* A watch failed before the property was set, a later one saw the value,
\* the flag is set and the garbage collector has been notified.
C36_Witness ==
    /\ gl.failed /\ gl.seen /\ gl.boot /\ gl.gc
    /\ gl.wpc = "end"

====
